---------------------------- MODULE Spec2Model ----------------------------
(***************************************************************************)
(* State-machine model of the rust-sc2 session controller (src/src/client.rs *)
(* run_vs_computer / run_vs_human / run_ladder_game, play_first_step,        *)
(* play_step) and of the parts of Bot (src/src/bot.rs) it drives: the        *)
(* command aggregator (get_actions / clear_actions) and the teardown         *)
(* (impl Drop for Bot, impl Drop for Human).                                 *)
(*                                                                           *)
(* The engine and the bot program (the Player callbacks) are the             *)
(* environment: every response, every transport outcome and every callback   *)
(* decision is a nondeterministic input.                                     *)
(***************************************************************************)
EXTENDS Integers, Sequences, FiniteSets, TLC

(***************************************************************************)
(* Bounds of the model.                                                      *)
(***************************************************************************)
\* on_step ticks explored before the model stops requesting observations
MaxTicks == 2
\* operations (orders, chat, debug commands, queries) one callback may perform
MaxOps == 2

(***************************************************************************)
(* Small input sets.                                                         *)
(***************************************************************************)
Controllers == {"host", "bot"}
Modes == {"computer", "human", "ladder"}
Tags == {"u1", "u2"}
\* (ability, target, queue-flag): a base key and one key differing from it in
\* each single component
Keys == { <<"Attack", "Pos1", FALSE>>, <<"Move", "Pos1", FALSE>>,
          <<"Attack", "Pos2", FALSE>>, <<"Attack", "Pos1", TRUE>> }
ChatTexts == {"gg", "glhf"}
GameSteps == {1, 2}
PlayerIds == {1, 2}
\* the engine's end-of-game player_result list, one entry per player
PlayerResults == { <<"Victory", "Defeat">>, <<"Defeat", "Victory">> }
CreateErrors == {"InvalidMapPath"}
JoinErrors == {"GameFull"}

VARIABLES
    mode,        \* which run function was called
    realtimeOpt, \* LaunchOptions.realtime
    botOrders,   \* the (tag, key) orders the bot program may issue
    pc,          \* position of the run function
    outcome,     \* <<kind, detail>> of the run function: running, ok, err, panic
    api,         \* api[c]: controller c holds a connection (Option<API> is Some)
    process,     \* process[c]: controller c holds a launched process
    pending,     \* pending[c]: requests written on c whose response is not read yet
    overlap,     \* <<c, request, awaited>>: request written while awaited was pending
    joined,      \* joined[c]: a successful join response was read on c
    playerId,    \* Bot.player_id
    gameStep,    \* Bot.game_step
    iteration,   \* the loop counter of the run function
    engineEnded, \* the engine has reported status ended
    commands,    \* Commander.commands: key -> tags
    actions,     \* Bot.actions
    debugCmds,   \* Bot.debug commands
    issued,      \* <<tag, key>> orders and chats issued since the tick began
    opsLeft,     \* operations the running callback may still perform
    dropped,     \* controllers whose destructor has run
    log,         \* events since the session (or the current tick) began
    state,       \* Bot.state.observation.raw.units: the current snapshot
    units,       \* Bot.units: the categorized collections (AllUnits)
    techlab_tags,  \* Bot.techlab_tags
    reactor_tags,  \* Bot.reactor_tags
    max_cooldowns, \* Bot.max_cooldowns: unit type -> cooldown
    orders,      \* Bot.orders: ability -> count
    current_units, \* Bot.current_units: unit type -> count
    game_info,   \* Bot.game_info: placement grid and start locations
    start_location,      \* Bot.start_location
    enemy_start,         \* Bot.enemy_start
    start_center,        \* Bot.start_center
    enemy_start_center,  \* Bot.enemy_start_center
    expansions,  \* Bot.expansions: list of (location, centre)
    reported,    \* <<tag, type, cooldown>> of own units in the snapshots so far
    queried,     \* the last query of the bot program, its response and result
    observed,    \* play_step's local state: the snapshot observed, not yet stored
    callbacks,   \* <<name, argument>> of the callbacks invoked so far, in order
    ramp,        \* a Ramp of the map: points, height map, start location
    data_for_unit,  \* Bot.data_for_unit: the shared context, its upgrades and creep
    raw,         \* Bot.state.observation.raw: upgrades, creep, its units' context
    supply_cap,  \* Bot.supply_cap
    supply_used, \* Bot.supply_used
    supply_left, \* Bot.supply_left
    observed_data   \* play_step's local state: its raw part and its common part

vars == << mode, realtimeOpt, botOrders, pc, outcome, api, process, pending,
           overlap, joined, playerId, gameStep, iteration, engineEnded,
           commands, actions, debugCmds, issued, opsLeft, dropped, log,
           state, units, techlab_tags, reactor_tags, max_cooldowns, orders,
           current_units, game_info, start_location, enemy_start, start_center,
           enemy_start_center, expansions, reported, queried, observed,
           callbacks, ramp, data_for_unit, raw, supply_cap, supply_used,
           supply_left, observed_data >>

\* the session's part of the state
sessionVars == << mode, realtimeOpt, botOrders, pc, outcome, api, process, pending,
                  overlap, joined, playerId, gameStep, iteration, engineEnded,
                  commands, actions, debugCmds, issued, opsLeft, dropped, log >>

\* the bot's views of the world, which neither a callback nor a query changes
viewVars == << state, units, techlab_tags, reactor_tags, max_cooldowns, orders,
               current_units, game_info, start_location, enemy_start,
               start_center, enemy_start_center, expansions, reported, observed,
               ramp, data_for_unit, raw, supply_cap, supply_used, supply_left,
               observed_data >>

\* the bot's views, its last query and the callbacks invoked
worldVars == << viewVars, queried, callbacks >>

EmptyMap == [k \in {} |-> <<>>]

\* One logged event: t is req (request written and its response read), send
\* (request written only), recv (response read), call / ret (callback entered /
\* returned), proc (process launched or killed), conn (connection opened),
\* fn (a tick function entered).
Ev(t, c, k, ok, v) == [t |-> t, c |-> c, k |-> k, ok |-> ok, v |-> v]

Running == <<"running", "">>

\* a tick's log begins with the name of the function that runs it
TickBegins(fn) == << Ev("fn", "-", fn, TRUE, iteration) >>


(***************************************************************************)
(* Transport (API::send, send_request, send_only, wait_response) over a     *)
(* net state st = [pending, overlap, log].  A blocking send writes the      *)
(* request and reads one response; a failed operation leaves nothing        *)
(* awaited that it wrote.                                                   *)
(***************************************************************************)
Net == [pending |-> pending, overlap |-> overlap, log |-> log]

Logged(st, e) == [st EXCEPT !.log = Append(@, e)]

WriteRequest(st, c, k) ==
    [st EXCEPT !.overlap = IF st.pending[c] # <<>>
                           THEN @ \cup {<<c, k, Head(st.pending[c])>>}
                           ELSE @,
               !.pending[c] = Append(@, k)]

ReadResponse(st, c) ==
    [st EXCEPT !.pending[c] = IF @ = <<>> THEN @ ELSE Tail(@)]

APISend(st, c, k, ok, v) ==
    IF ok THEN Logged(ReadResponse(WriteRequest(st, c, k), c), Ev("req", c, k, TRUE, v))
          ELSE Logged(st, Ev("req", c, k, FALSE, v))

APISendRequest(st, c, k, ok, v) == APISend(st, c, k, ok, v)

APISendOnly(st, c, k, ok, v) ==
    IF ok THEN Logged(WriteRequest(st, c, k), Ev("send", c, k, TRUE, v))
          ELSE Logged(st, Ev("send", c, k, FALSE, v))

APIWaitResponse(st, c, k, ok, v) ==
    IF ok THEN Logged(ReadResponse(st, c), Ev("recv", c, k, TRUE, v))
          ELSE Logged([st EXCEPT !.pending[c] = <<>>], Ev("recv", c, k, FALSE, v))

Commit(st) ==
    /\ pending' = st.pending
    /\ overlap' = st.overlap
    /\ log' = st.log

\* the run function returns (ok, err) or unwinds (panic)
Exit(kind, detail) ==
    /\ pc' = "exited"
    /\ outcome' = <<kind, detail>>

\* realtime as passed to play_first_step / play_step
Realtime == IF mode = "ladder" THEN FALSE ELSE realtimeOpt

\* the connection the create-game request goes to
CreateConn == IF mode = "human" THEN "host" ELSE "bot"

(***************************************************************************)
(* The world as the bot sees it: units of a snapshot, unit types by role,   *)
(* the static data of the game.  Coordinates are kept doubled (the point    *)
(* (x, y) is the pair <<2x, 2y>>), so that the half-tile positions of        *)
(* resources and of snapped centres are integers.                           *)
(***************************************************************************)
None == <<>>
Some(v) == << v >>

\* Ramp::default(): no points
RampDefault == [points |-> <<>>, height |-> << >>, start_location |-> << 0, 0 >>]

\* a unit of the raw observation (Unit::from_proto)
Unit(tag, alliance, type_id, position, weapon_cooldown, ready, placeholder, its_orders) ==
    [tag |-> tag, alliance |-> alliance, type_id |-> type_id, position |-> position,
     weapon_cooldown |-> weapon_cooldown, ready |-> ready,
     placeholder |-> placeholder, orders |-> its_orders]

WatchtowerTypes == {"XelNagaTower"}
MineralFieldTypes ==
    {"RichMineralField", "RichMineralField750", "MineralField", "MineralField450",
     "MineralField750", "LabMineralField", "LabMineralField750",
     "PurifierRichMineralField", "PurifierRichMineralField750",
     "PurifierMineralField", "PurifierMineralField750",
     "BattleStationMineralField", "BattleStationMineralField750",
     "MineralFieldOpaque", "MineralFieldOpaque900"}
VespeneGeyserTypes ==
    {"VespeneGeyser", "SpacePlatformGeyser", "RichVespeneGeyser",
     "ProtossVespeneGeyser", "PurifierVespeneGeyser", "ShakurasVespeneGeyser"}
INHIBITOR_IDS == {"InhibitorZoneSmall", "InhibitorZoneMedium", "InhibitorZoneLarge"}
TownhallTypes ==
    {"CommandCenter", "OrbitalCommand", "PlanetaryFortress", "CommandCenterFlying",
     "OrbitalCommandFlying", "Hatchery", "Lair", "Hive", "Nexus"}
GasBuildingTypes ==
    {"Refinery", "RefineryRich", "Assimilator", "AssimilatorRich", "Extractor",
     "ExtractorRich"}
TechLabTypes == {"TechLab", "BarracksTechLab", "FactoryTechLab", "StarportTechLab"}
ReactorTypes == {"Reactor", "BarracksReactor", "FactoryReactor", "StarportReactor"}
WorkerTypes == {"SCV", "Probe", "Drone"}

\* Unit::is_structure: the unit type's data carries the Structure attribute
StructureTypes ==
    TownhallTypes \cup GasBuildingTypes \cup TechLabTypes \cup ReactorTypes
        \cup {"Barracks"}

IsMine(u) == u.alliance = "Own"
IsStructure(u) == u.type_id \in StructureTypes
IsPlaceholder(u) == u.placeholder
IsReady(u) == u.ready
IsGeyser(u) == u.type_id \in VespeneGeyserTypes

\* GameData.units[type].ability: the ability that produces the type, for the
\* types that have data and an ability
ProductionAbility ==
    [t \in {"CommandCenter", "Barracks", "BarracksTechLab", "Marine", "SCV"} |->
        CASE t = "CommandCenter" -> "TerranBuildCommandCenter"
          [] t = "Barracks" -> "TerranBuildBarracks"
          [] t = "BarracksTechLab" -> "BuildTechLabBarracks"
          [] t = "Marine" -> "BarracksTrainMarine"
          [] t = "SCV" -> "CommandCenterTrainSCV"]

\* AbilityId::is_constructing
ConstructingAbilities == {"TerranBuildCommandCenter", "TerranBuildBarracks"}
IsConstructing(ability) == ability \in ConstructingAbilities

\* map[key] = value, the key inserted when absent
Put(map, key, value) ==
    [k \in DOMAIN map \cup {key} |-> IF k = key THEN value ELSE map[k]]

\* *map.entry(key).or_default() += 1
Incremented(map, key) ==
    Put(map, key, IF key \in DOMAIN map THEN map[key] + 1 ELSE 1)

EmptyUnits == [all |-> <<>>, units |-> <<>>, structures |-> <<>>,
               townhalls |-> <<>>, workers |-> <<>>, gas_buildings |-> <<>>,
               larvas |-> <<>>, placeholders |-> <<>>]

\* AllUnits::default() and AllUnits::clear(): every collection empty
EmptyAllUnits ==
    [my |-> EmptyUnits, enemy |-> EmptyUnits, mineral_fields |-> <<>>,
     vespene_geysers |-> <<>>, resources |-> <<>>, destructables |-> <<>>,
     watchtowers |-> <<>>, inhibitor_zones |-> <<>>]

Origin == <<0, 0>>

\* a u32 is kept as its two 16-bit halves, value = hi * Half + lo, so that
\* every value of the type can be written and the arithmetic keeps its width
Half == 65536

\* the u32 of a number below Half * Half / 2
ToU32(n) == [hi |-> n \div Half, lo |-> n % Half]

\* u32::MAX
U32Max == [hi |-> Half - 1, lo |-> Half - 1]

\* a < b on u32
LessU32(a, b) == a.hi < b.hi \/ (a.hi = b.hi /\ a.lo < b.lo)

\* a - b on u32 where overflow is not checked: the difference modulo 2^32
WrappingSub(a, b) ==
    LET borrow == IF a.lo < b.lo THEN 1 ELSE 0
    IN  [hi |-> (a.hi - b.hi - borrow + Half) % Half,
         lo |-> (a.lo - b.lo + Half) % Half]

\* a - b on u32 panics: overflow is checked (a debug build) and b exceeds a;
\* where it is not checked (a release build) the difference wraps
SubPanics(overflow_checks, a, b) == overflow_checks /\ LessU32(a, b)

\* DataForUnit::default(): no upgrades, no creep
DataDefault == [upgrades |-> {}, creep |-> {}]

\* the raw part of GameState::default(), and the common part
RawDefault == [upgrades |-> {}, creep |-> {}, data |-> DataDefault]
CommonDefault == [food_cap |-> ToU32(0), food_used |-> ToU32(0)]

\* Bot::new(): the context and the supply
ContextNew ==
    /\ data_for_unit = DataDefault
    /\ raw = RawDefault
    /\ supply_cap = ToU32(0)
    /\ supply_used = ToU32(0)
    /\ supply_left = ToU32(0)
    /\ observed_data = [raw |-> RawDefault, common |-> CommonDefault]

\* Bot::new(): the world part
BotNew ==
    /\ state = <<>>
    /\ units = EmptyAllUnits
    /\ techlab_tags = <<>>
    /\ reactor_tags = <<>>
    /\ max_cooldowns = EmptyMap
    /\ orders = EmptyMap
    /\ current_units = EmptyMap
    /\ game_info = [placement_grid |-> {}, start_locations |-> <<>>]
    /\ start_location = Origin
    /\ enemy_start = Origin
    /\ start_center = [sum |-> Origin, n |-> 1]
    /\ enemy_start_center = [sum |-> Origin, n |-> 1]
    /\ expansions = <<>>
    /\ reported = {}
    /\ queried = <<>>
    /\ observed = <<>>
    /\ callbacks = <<>>
    /\ ContextNew
    /\ ramp = RampDefault

(***************************************************************************)
(* World state synchronizer: Bot::update_units, Bot::prepare_step.  A bot   *)
(* value b holds the fields the synchronizer writes.                        *)
(***************************************************************************)
\* $group.push(u.clone())
AddTo(group, u) == Append(group, u)

\* the cooldown table holding the last cooldown reported for the type
WithLatestCooldown(cooldowns, type_id, cooldown) == Put(cooldowns, type_id, cooldown)

\* max_cooldowns.entry(u_type).and_modify(|max| if cooldown > *max { *max =
\* cooldown }).or_insert(cooldown)
WithCooldown(cooldowns, type_id, cooldown) ==
    IF type_id \in DOMAIN cooldowns
    THEN IF cooldown > cooldowns[type_id]
         THEN [cooldowns EXCEPT ![type_id] = cooldown]
         ELSE cooldowns
    ELSE Put(cooldowns, type_id, cooldown)

\* the arm Alliance::Neutral of update_units
ClassifiedNeutral(b, u) ==
    CASE u.type_id \in WatchtowerTypes ->
            [b EXCEPT !.units.watchtowers = AddTo(@, u)]
      [] u.type_id \in MineralFieldTypes ->
            [b EXCEPT !.units.resources = AddTo(@, u),
                      !.units.mineral_fields = AddTo(@, u)]
      [] u.type_id \in VespeneGeyserTypes ->
            [b EXCEPT !.units.resources = AddTo(@, u),
                      !.units.vespene_geysers = AddTo(@, u)]
      [] u.type_id \in INHIBITOR_IDS ->
            [b EXCEPT !.units.inhibitor_zones = AddTo(@, u)]
      [] OTHER -> [b EXCEPT !.units.destructables = AddTo(@, u)]

\* the arm for a player's unit with a placeholder kept among the structures too
ClassifiedPlayerUnitPlaceholderAsStructure(b, u) ==
    LET side == IF IsMine(u) THEN "my" ELSE "enemy"
        b1 == [b EXCEPT !.units[side].all = AddTo(@, u)]
        b2 == IF IsStructure(u) /\ IsPlaceholder(u)
              THEN [b1 EXCEPT !.units[side].placeholders = AddTo(@, u)]
              ELSE b1
    IN  IF IsStructure(u)
        THEN [b2 EXCEPT !.units[side].structures = AddTo(@, u)]
        ELSE [b2 EXCEPT !.units[side].units = AddTo(@, u)]

\* the arm Alliance::Own | Alliance::Enemy of update_units
ClassifiedPlayerUnit(b, u) ==
    LET side == IF IsMine(u) THEN "my" ELSE "enemy"
        b1 == [b EXCEPT !.units[side].all = AddTo(@, u)]
        b2 == IF IsMine(u) /\ u.weapon_cooldown # None
              THEN [b1 EXCEPT !.max_cooldowns =
                                 WithCooldown(@, u.type_id, u.weapon_cooldown[1])]
              ELSE b1
    IN  IF IsStructure(u)
        THEN IF IsPlaceholder(u)
             THEN [b2 EXCEPT !.units[side].placeholders = AddTo(@, u)]
             ELSE LET b3 == [b2 EXCEPT !.units[side].structures = AddTo(@, u)]
                  IN  CASE u.type_id \in TownhallTypes ->
                              [b3 EXCEPT !.units[side].townhalls = AddTo(@, u)]
                        [] u.type_id \in GasBuildingTypes ->
                              [b3 EXCEPT !.units[side].gas_buildings = AddTo(@, u)]
                        [] u.type_id \in TechLabTypes /\ IsMine(u) ->
                              [b3 EXCEPT !.techlab_tags = Append(@, u.tag)]
                        [] u.type_id \in ReactorTypes /\ IsMine(u) ->
                              [b3 EXCEPT !.reactor_tags = Append(@, u.tag)]
                        [] OTHER -> b3
        ELSE LET b3 == [b2 EXCEPT !.units[side].units = AddTo(@, u)]
             IN  CASE u.type_id \in WorkerTypes ->
                         [b3 EXCEPT !.units[side].workers = AddTo(@, u)]
                   [] u.type_id = "Larva" ->
                         [b3 EXCEPT !.units[side].larvas = AddTo(@, u)]
                   [] OTHER -> b3

\* the body of the for_each of update_units
Classified(b, u) ==
    CASE u.alliance = "Neutral" -> ClassifiedNeutral(b, u)
      [] u.alliance \in {"Own", "Enemy"} -> ClassifiedPlayerUnit(b, u)
      [] OTHER -> b

RECURSIVE ClassifiedAll(_, _)
\* self.state.observation.raw.units.iter().for_each(...)
ClassifiedAll(b, snapshot) ==
    IF snapshot = <<>> THEN b
    ELSE ClassifiedAll(Classified(b, Head(snapshot)), Tail(snapshot))

\* update_units that keeps what the collections and tag lists held
UpdateUnitsWithoutClear(b, snapshot) == ClassifiedAll(b, snapshot)

\* Bot::update_units
UpdateUnits(b, snapshot) ==
    ClassifiedAll([b EXCEPT !.units = EmptyAllUnits,
                            !.techlab_tags = <<>>,
                            !.reactor_tags = <<>>], snapshot)

RECURSIVE CountedOrders(_, _)
\* the orders of a unit counted whatever their ability
CountedOrdersWithConstructing(ords, unit_orders) ==
    IF unit_orders = <<>> THEN ords
    ELSE CountedOrders(Incremented(ords, Head(unit_orders)), Tail(unit_orders))

\* u.orders.iter().for_each(...) of prepare_step
CountedOrders(ords, unit_orders) ==
    IF unit_orders = <<>> THEN ords
    ELSE CountedOrders(IF ~IsConstructing(Head(unit_orders))
                       THEN Incremented(ords, Head(unit_orders))
                       ELSE ords,
                       Tail(unit_orders))

\* the body of the counting loop of prepare_step for one own unit
CountedUnit(c, u) ==
    LET ords == CountedOrders(c.orders, u.orders)
    IN  IF IsReady(u) /\ ~IsPlaceholder(u)
        THEN [current_units |-> Incremented(c.current_units, u.type_id),
              orders |-> ords]
        ELSE IF u.type_id \in DOMAIN ProductionAbility
             THEN [current_units |-> c.current_units,
                   orders |-> Incremented(ords, ProductionAbility[u.type_id])]
             ELSE [current_units |-> c.current_units, orders |-> ords]

RECURSIVE Counted(_, _)
\* self.units.my.all.iter().for_each(...) of prepare_step
Counted(c, all) ==
    IF all = <<>> THEN c
    ELSE Counted(CountedUnit(c, Head(all)), Tail(all))

\* the fields of Bot that prepare_start and prepare_step read and write
Bot == [units |-> units, techlab_tags |-> techlab_tags,
        reactor_tags |-> reactor_tags, max_cooldowns |-> max_cooldowns,
        orders |-> orders, current_units |-> current_units,
        start_location |-> start_location, enemy_start |-> enemy_start,
        start_center |-> start_center, enemy_start_center |-> enemy_start_center,
        expansions |-> expansions]

\* prepare_step counting on top of the counters of the tick before
PrepareStepKeepingCounters(b, snapshot) ==
    LET b1 == UpdateUnits(b, snapshot)
        c == Counted([current_units |-> b.current_units, orders |-> b.orders],
                     b1.units.my.all)
    IN  [b1 EXCEPT !.current_units = c.current_units, !.orders = c.orders]

\* Bot::prepare_step on the snapshot just stored in Bot.state
PrepareStep(b, snapshot) ==
    LET b1 == UpdateUnits(b, snapshot)
        c == Counted([current_units |-> EmptyMap, orders |-> EmptyMap],
                     b1.units.my.all)
    IN  [b1 EXCEPT !.current_units = c.current_units, !.orders = c.orders]

\* the cooldowns own units report in a snapshot
OwnReports(snapshot) ==
    { <<snapshot[i].tag, snapshot[i].type_id, snapshot[i].weapon_cooldown[1]>> :
         i \in { j \in DOMAIN snapshot :
                    IsMine(snapshot[j]) /\ snapshot[j].weapon_cooldown # None } }

\* the bot's fields take the values of b
Synchronized(b, snapshot) ==
    /\ start_location' = b.start_location
    /\ enemy_start' = b.enemy_start
    /\ start_center' = b.start_center
    /\ enemy_start_center' = b.enemy_start_center
    /\ expansions' = b.expansions
    /\ state' = snapshot
    /\ units' = b.units
    /\ techlab_tags' = b.techlab_tags
    /\ reactor_tags' = b.reactor_tags
    /\ max_cooldowns' = b.max_cooldowns
    /\ orders' = b.orders
    /\ current_units' = b.current_units
    /\ reported' = reported \cup OwnReports(snapshot)

(***************************************************************************)
(* Geometry on doubled coordinates: a squared distance of the model is four *)
(* times the squared distance of the program.  A centre (a mean of points)  *)
(* is kept exact as the pair (sum of the doubled points, their number).     *)
(***************************************************************************)
\* Point2::distance_squared (times four)
DistanceSquared(p, q) ==
    (p[1] - q[1]) * (p[1] - q[1]) + (p[2] - q[2]) * (p[2] - q[2])

\* the tile of the grid a point indexes: its coordinates truncated
Tile(p) == << p[1] \div 2, p[2] \div 2 >>

\* Point2::offset by whole tiles
Offset(p, x, y) == << p[1] + 2 * x, p[2] + 2 * y >>

\* Unit::is_closer / Units::closer: within the distance (given in tiles)
IsCloser(distance, p, q) == DistanceSquared(p, q) < 4 * distance * distance
\* Unit::is_further: not within the distance
IsFurther(distance, p, q) == ~IsCloser(distance, p, q)

Closer(group, distance, p) ==
    SelectSeq(group, LAMBDA u : IsCloser(distance, u.position, p))

RECURSIVE SumOfPositions(_)
\* Units::sum(|r| r.position)
SumOfPositions(group) ==
    IF group = <<>> THEN Origin
    ELSE LET rest == SumOfPositions(Tail(group))
         IN  << Head(group).position[1] + rest[1],
                Head(group).position[2] + rest[2] >>

\* (resources.sum(|r| r.position) + location) / (resources.len() + 1)
CenterWith(group, location) ==
    LET sum == SumOfPositions(group)
    IN  [sum |-> << sum[1] + location[1], sum[2] + location[2] >>,
         n |-> Len(group) + 1]

\* resources.center().floor() + 0.5
FlooredCenter(group) ==
    LET sum == SumOfPositions(group)
    IN  << 2 * (sum[1] \div (2 * Len(group))) + 1,
           2 * (sum[2] \div (2 * Len(group))) + 1 >>

\* center.distance_squared(c) < limit, for a centre c and a limit in tiles squared
CenterWithin(limit, p, c) ==
    (p[1] * c.n - c.sum[1]) * (p[1] * c.n - c.sum[1])
        + (p[2] * c.n - c.sum[2]) * (p[2] * c.n - c.sum[2])
      < 4 * limit * c.n * c.n

\* game_info.placement_grid[pos].is_empty(): the tile can be built on
IsEmpty(placement_grid, pos) == Tile(pos) \notin placement_grid

(***************************************************************************)
(* Expansion detection: utils::dbscan, utils::range_query and the second    *)
(* half of Bot::prepare_start.                                              *)
(***************************************************************************)
\* 8.5, doubled
RESOURCE_SPREAD == 17
RESOURCE_SPREAD_SQUARED == RESOURCE_SPREAD * RESOURCE_SPREAD
MinPoints == 4
OFFSET == 7
OffsetLimit == 64
StartRange == 11
StartTolerance == 16
MineralClearance == 36
GeyserClearance == 49

\* range_query: the points (their indices) within epsilon of the point i
RangeQuery(positions, epsilon, i) ==
    { j \in DOMAIN positions :
         DistanceSquared(positions[i][1], positions[j][1]) <= epsilon }

\* the least number of a non-empty set of numbers
Least(S) == CHOOSE s \in S : \A t \in S : s <= t

RECURSIVE Grown(_, _, _, _, _)
\* dbscan, the inner loop: the cluster grown through the neighbours of its
\* dense points, the points of earlier clusters left alone
Grown(positions, min_points, taken, cluster, seeds) ==
    IF seeds = {} THEN cluster
    ELSE LET q == Least(seeds)
             neighbours == RangeQuery(positions, RESOURCE_SPREAD_SQUARED, q)
             found == IF Cardinality(neighbours) >= min_points
                      THEN neighbours \ (taken \cup cluster \cup seeds)
                      ELSE {}
         IN  Grown(positions, min_points, taken, cluster \cup {q},
                   (seeds \ {q}) \cup found)

RECURSIVE DbscanFrom(_, _, _, _, _)
\* dbscan, the outer loop over the points in their order
DbscanFrom(positions, min_points, i, taken, clusters) ==
    IF i > Len(positions) THEN clusters
    ELSE IF i \in taken
              \/ Cardinality(RangeQuery(positions, RESOURCE_SPREAD_SQUARED, i))
                    < min_points
         THEN DbscanFrom(positions, min_points, i + 1, taken, clusters)
         ELSE LET cluster == Grown(positions, min_points, taken, {}, {i})
              IN  DbscanFrom(positions, min_points, i + 1, taken \cup cluster,
                             Append(clusters, cluster))

\* dbscan(...).0: the clusters, each the set of the tags of its points
Dbscan(positions, min_points) ==
    LET clusters == DbscanFrom(positions, min_points, 1, {}, <<>>)
    IN  [c \in DOMAIN clusters |-> { positions[i][2] : i \in clusters[c] }]

\* OFFSETS: iproduct!(-OFFSET..=OFFSET, -OFFSET..=OFFSET) within the disk
OFFSETS ==
    { o \in ((0 - OFFSET)..OFFSET) \X ((0 - OFFSET)..OFFSET) :
         o[1] * o[1] + o[2] * o[2] <= OffsetLimit }

\* the place of an offset in the list OFFSETS: x outermost
ComesBefore(o1, o2) == o1[1] < o2[1] \/ (o1[1] = o2[1] /\ o1[2] < o2[2])

RECURSIVE DistanceSum(_, _)
DistanceSum(pos, resources) ==
    IF resources = <<>> THEN 0
    ELSE DistanceSquared(pos, Head(resources).position)
            + DistanceSum(pos, Tail(resources))

\* the offsets a search keeps that looks at the resources only, not at the
\* placement grid
CandidatesOnAnyTile(placement_grid, center, resources) ==
    { o \in OFFSETS :
         LET pos == Offset(center, o[1], o[2])
         IN  \A i \in DOMAIN resources :
                DistanceSquared(pos, resources[i].position)
                   > 4 * (IF IsGeyser(resources[i]) THEN GeyserClearance
                                                    ELSE MineralClearance) }

\* the offsets the filter_map of the search keeps
Candidates(placement_grid, center, resources) ==
    { o \in OFFSETS :
         LET pos == Offset(center, o[1], o[2])
         IN  /\ IsEmpty(placement_grid, pos)
             /\ \A i \in DOMAIN resources :
                   DistanceSquared(pos, resources[i].position)
                      > 4 * (IF IsGeyser(resources[i]) THEN GeyserClearance
                                                       ELSE MineralClearance) }

\* min_by taking the last of the candidates with the least distance sum
LastBest(center, resources, candidates) ==
    LET distance_sum == [o \in candidates |->
                            DistanceSum(Offset(center, o[1], o[2]), resources)]
    IN  CHOOSE o \in candidates :
           \A p \in candidates \ {o} :
              \/ distance_sum[o] < distance_sum[p]
              \/ distance_sum[o] = distance_sum[p] /\ ComesBefore(p, o)

\* min_by(|(_, d1), (_, d2)| d1.partial_cmp(d2)): the first of the candidates
\* with the least distance sum
FirstBest(center, resources, candidates) ==
    LET distance_sum == [o \in candidates |->
                            DistanceSum(Offset(center, o[1], o[2]), resources)]
    IN  CHOOSE o \in candidates :
           \A p \in candidates \ {o} :
              \/ distance_sum[o] < distance_sum[p]
              \/ distance_sum[o] = distance_sum[p] /\ ComesBefore(o, p)

\* Units::find_tags
FindTags(group, tags) == SelectSeq(group, LAMBDA u : u.tag \in tags)

\* which arm of the map closure of prepare_start a group takes
Branch(b, info, resources) ==
    LET center == FlooredCenter(resources)
    IN  IF CenterWithin(StartTolerance, center, b.start_center) THEN "start"
        ELSE IF CenterWithin(StartTolerance, center, b.enemy_start_center)
             THEN "enemy_start"
             ELSE IF \E o \in Candidates(info.placement_grid, center, resources) :
                        TRUE
                  THEN "search" ELSE "expect"

\* the map closure of prepare_start: the expansion of one resource group
Expansion(b, info, resources) ==
    LET center == FlooredCenter(resources)
        branch == Branch(b, info, resources)
    IN  CASE branch = "start" -> << b.start_location, b.start_center >>
          [] branch = "enemy_start" -> << b.enemy_start, b.enemy_start_center >>
          [] OTHER ->
               LET o == FirstBest(center, resources,
                                  Candidates(info.placement_grid, center, resources))
                   location == Offset(center, o[1], o[2])
               IN  << location, CenterWith(resources, location) >>

\* the resources the clustering works on
AllResources(b) ==
    SelectSeq(b.units.resources, LAMBDA r : r.type_id # "MineralField450")

\* the resource groups of prepare_start, each the units of its tags
ResourceGroups(b) ==
    LET all_resources == AllResources(b)
        positions == [i \in DOMAIN all_resources |->
                         << all_resources[i].position, all_resources[i].tag >>]
        resource_groups == Dbscan(positions, MinPoints)
    IN  [g \in DOMAIN resource_groups |-> FindTags(all_resources, resource_groups[g])]

\* prepare_start up to the start centres; the bot has an own townhall
WithStarts(b, info) ==
    LET start == b.units.my.townhalls[1].position
        enemy == info.start_locations[1]
    IN  [b EXCEPT !.start_location = start,
                  !.enemy_start = enemy,
                  !.start_center =
                      CenterWith(Closer(b.units.resources, StartRange, start), start),
                  !.enemy_start_center =
                      CenterWith(Closer(b.units.resources, StartRange, enemy), enemy)]

\* what stops prepare_start: the unwrap of townhalls.first(), the expect of
\* the search, or nothing
PrepareStartPanic(b, info) ==
    IF b.units.my.townhalls = <<>> THEN "townhalls"
    ELSE LET groups == ResourceGroups(b)
             b1 == WithStarts(b, info)
         IN  IF \E g \in DOMAIN groups : Branch(b1, info, groups[g]) = "expect"
             THEN "expansions" ELSE ""

\* a prepare_start that extends the expansions list it finds instead of
\* assigning the list it computed
PrepareStartAppending(b, snapshot, info) ==
    LET b1 == UpdateUnits(b, snapshot)
        panic == PrepareStartPanic(b1, info)
    IN  IF panic = "townhalls" THEN b1
        ELSE LET b2 == WithStarts(b1, info)
                 groups == ResourceGroups(b2)
             IN  IF panic = "expansions" THEN b2
                 ELSE [b2 EXCEPT !.expansions =
                          @ \o [g \in DOMAIN groups |-> Expansion(b2, info, groups[g])]]

\* Bot::prepare_start on the snapshot just stored in Bot.state
PrepareStart(b, snapshot, info) ==
    LET b1 == UpdateUnits(b, snapshot)
        panic == PrepareStartPanic(b1, info)
    IN  IF panic = "townhalls" THEN b1
        ELSE LET b2 == WithStarts(b1, info)
                 groups == ResourceGroups(b2)
             IN  IF panic = "expansions" THEN b2
                 ELSE [b2 EXCEPT !.expansions =
                          [g \in DOMAIN groups |-> Expansion(b2, info, groups[g])]]

(***************************************************************************)
(* Inputs of the world specification: snapshots and maps.  A two-base map   *)
(* with a natural expansion between the bases: the own start at (20.5,      *)
(* 20.5), the enemy start at (60.5, 20.5), each with five mineral fields,   *)
(* and eight mineral fields and a geyser around (37, 41).                   *)
(***************************************************************************)
OwnStart == <<41, 41>>
EnemyStart == <<121, 41>>

Neutral(tag, type_id, position) ==
    Unit(tag, "Neutral", type_id, position, None, TRUE, FALSE, <<>>)
Mineral(tag, position) == Neutral(tag, "MineralField", position)

OwnCommandCenter ==
    Unit("t1", "Own", "CommandCenter", OwnStart, None, TRUE, FALSE,
         << "CommandCenterTrainSCV" >>)
EnemyCommandCenter ==
    Unit("t7", "Enemy", "CommandCenter", EnemyStart, None, TRUE, FALSE, <<>>)

OwnMinerals ==
    << Mineral("a1", <<26, 35>>), Mineral("a2", <<26, 39>>), Mineral("a3", <<26, 43>>),
       Mineral("a4", <<26, 47>>), Mineral("a5", <<28, 51>>) >>
EnemyMinerals ==
    << Mineral("e1", <<136, 35>>), Mineral("e2", <<136, 39>>),
       Mineral("e3", <<136, 43>>), Mineral("e4", <<136, 47>>),
       Mineral("e5", <<134, 51>>) >>
NaturalMinerals ==
    << Mineral("n1", <<72, 75>>), Mineral("n2", <<72, 79>>), Mineral("n3", <<72, 83>>),
       Mineral("n4", <<72, 87>>), Mineral("n5", <<74, 71>>), Mineral("n6", <<74, 91>>),
       Mineral("n7", <<76, 69>>), Mineral("n8", <<76, 93>>) >>
NaturalGeyser == Neutral("g1", "VespeneGeyser", <<79, 97>>)
SmallField == Neutral("s1", "MineralField450", <<60, 61>>)

\* the whole map at the start of a game, and with the enemy's townhall seen
SceneBases ==
    << OwnCommandCenter >> \o OwnMinerals \o NaturalMinerals
        \o << NaturalGeyser, SmallField >> \o EnemyMinerals
SceneEnemySeen == SceneBases \o << EnemyCommandCenter >>
\* one group of eight mineral fields away from the own townhall
SceneNatural == << OwnCommandCenter >> \o NaturalMinerals
Scenes == { SceneBases, SceneEnemySeen, SceneNatural }

\* own and enemy units, one and the same unit (tag) in several conditions
OwnUnits ==
    { OwnCommandCenter,
      Unit("t2", "Own", "Barracks", <<50, 41>>, None, FALSE, FALSE, <<>>),
      Unit("t2", "Own", "Barracks", <<50, 41>>, None, TRUE, FALSE,
           << "BarracksTrainMarine" >>),
      Unit("t3", "Own", "Marine", <<45, 45>>, Some(2), TRUE, FALSE, <<>>),
      Unit("t3", "Own", "Marine", <<45, 45>>, Some(1), TRUE, FALSE, << "Attack" >>),
      Unit("t4", "Own", "Marine", <<47, 45>>, Some(3), TRUE, FALSE, <<>>),
      Unit("t4", "Own", "SCV", <<43, 45>>, Some(0), TRUE, FALSE,
           << "TerranBuildBarracks" >>),
      Unit("t5", "Enemy", "Marine", <<49, 45>>, Some(5), TRUE, FALSE, <<>>) }
OtherUnits ==
    { Unit("t2", "Own", "Barracks", <<50, 41>>, None, FALSE, TRUE, <<>>),
      Unit("t6", "Own", "BarracksTechLab", <<55, 40>>, None, TRUE, FALSE, <<>>),
      Unit("t6", "Own", "BarracksReactor", <<55, 40>>, None, FALSE, FALSE, <<>>),
      Unit("t6", "Own", "Refinery", <<55, 40>>, None, TRUE, FALSE, <<>>),
      Unit("t6", "Own", "Larva", <<55, 40>>, None, TRUE, FALSE, <<>>),
      Unit("t6", "Own", "Factory", <<55, 40>>, None, FALSE, FALSE, <<>>),
      Unit("t7", "Enemy", "BarracksTechLab", <<55, 40>>, None, TRUE, FALSE, <<>>),
      Unit("t7", "Enemy", "BarracksReactor", <<55, 40>>, None, TRUE, FALSE, <<>>),
      Unit("t7", "Enemy", "SCV", <<55, 40>>, Some(0), TRUE, FALSE, <<>>),
      Unit("t7", "Enemy", "Barracks", <<55, 40>>, None, FALSE, TRUE, <<>>),
      Unit("t5", "Ally", "Marine", <<49, 45>>, Some(7), TRUE, FALSE, <<>>),
      EnemyCommandCenter, NaturalGeyser, SmallField, Mineral("n1", <<72, 75>>),
      Neutral("t8", "XelNagaTower", <<60, 80>>),
      Neutral("t8", "InhibitorZoneSmall", <<60, 80>>),
      Neutral("t8", "DestructibleDebris6x6", <<60, 80>>) }

\* the snapshots the engine may report: nothing, one unit, two units of
\* different tags in either order, a scene
\* no unit of the snapshots has more orders than this
MaxOrdersOfAUnit == 1

Snapshots ==
    { <<>> } \cup { << u >> : u \in OwnUnits \cup OtherUnits }
        \cup { pair \in OwnUnits \X OwnUnits : pair[1].tag # pair[2].tag }
        \cup Scenes

TilesOf(group) == { Tile(group[i].position) : i \in DOMAIN group }

\* the tiles around a tile, r tiles each way
Block(tile, r) == ((tile[1] - r)..(tile[1] + r)) \X ((tile[2] - r)..(tile[2] + r))

ResourceTiles ==
    TilesOf(OwnMinerals \o NaturalMinerals \o << NaturalGeyser, SmallField >>
               \o EnemyMinerals)

\* the maps: placement grids (the tiles that cannot be built on) and the
\* enemy's start location.  Open: only resources block.  Occupied: the
\* townhalls at both starts block too.  Walled: nothing can be built around
\* the natural expansion either.  Rim: around the natural only tiles eight
\* away along the axes, and the far column but for one tile, can be built on.
MapOpen == [placement_grid |-> ResourceTiles, start_locations |-> << EnemyStart >>]
MapOccupied ==
    [placement_grid |-> ResourceTiles \cup Block(Tile(OwnStart), 2)
                           \cup Block(Tile(EnemyStart), 2),
     start_locations |-> << EnemyStart >>]
MapWalled ==
    [placement_grid |-> MapOccupied.placement_grid \cup Block(<<37, 41>>, 9),
     start_locations |-> << EnemyStart >>]
MapRim ==
    [placement_grid |-> MapOccupied.placement_grid \cup Block(<<37, 41>>, 7)
                           \cup { <<29, 40>> },
     start_locations |-> << EnemyStart >>]
Maps == { MapOpen, MapOccupied, MapWalled, MapRim }

(***************************************************************************)
(* Construction: Bot::new(), Human::new(), and the caller's choice of run   *)
(* function and options.                                                    *)
(***************************************************************************)
InitCommon ==
    /\ mode \in Modes
    /\ realtimeOpt \in (IF mode = "ladder" THEN {FALSE} ELSE BOOLEAN)
    /\ pc = CASE mode = "computer" -> "launch_bot"
              [] mode = "human" -> "launch_host"
              [] mode = "ladder" -> "connect_bot"
    /\ outcome = Running
    /\ api = [c \in Controllers |-> FALSE]
    /\ process = [c \in Controllers |-> FALSE]
    /\ pending = [c \in Controllers |-> <<>>]
    /\ overlap = {}
    /\ joined = [c \in Controllers |-> FALSE]
    /\ playerId = 0
    /\ gameStep = 1
    /\ iteration = 0
    /\ engineEnded = FALSE
    /\ commands = EmptyMap
    /\ actions = <<>>
    /\ debugCmds = <<>>
    /\ issued = {}
    /\ opsLeft = 0
    /\ dropped = {}
    /\ log = <<>>
    /\ BotNew

\* a bot program issuing a single order: the whole session under every
\* transport, protocol and callback failure
Init ==
    /\ InitCommon
    /\ botOrders = { <<"u1", <<"Attack", "Pos1", FALSE>> >> }

(***************************************************************************)
(* Launch, connect, create, join (run_vs_computer, run_vs_human,            *)
(* run_ladder_game).                                                        *)
(***************************************************************************)
LaunchClient(c, ok) ==
    /\ pc = "launch_" \o c
    /\ IF ok
       THEN /\ process' = [process EXCEPT ![c] = TRUE]
            /\ log' = Append(log, Ev("proc", c, "launch", TRUE, ""))
            /\ pc' = IF c = "host" THEN "launch_bot"
                     ELSE IF mode = "human" THEN "connect_host" ELSE "connect_bot"
            /\ UNCHANGED outcome
       ELSE /\ log' = Append(log, Ev("proc", c, "launch", FALSE, ""))
            /\ Exit("panic", "Can't launch SC2 process.")
            /\ UNCHANGED process
    /\ UNCHANGED << mode, realtimeOpt, botOrders, api, pending, overlap, joined,
                    playerId, gameStep, iteration, engineEnded, commands,
                    actions, debugCmds, issued, opsLeft, dropped >>
    /\ UNCHANGED worldVars

\* the loop retries until an attempt succeeds
\* a connect that gives up after a failed attempt
ConnectToWebsocketOnce(c, ok) ==
    /\ pc = "connect_" \o c
    /\ IF ok
       THEN /\ api' = [api EXCEPT ![c] = TRUE]
            /\ log' = Append(log, Ev("conn", c, "connect", TRUE, ""))
            /\ pc' = IF c = "host" THEN "connect_bot"
                     ELSE IF mode = "ladder" THEN "join2_bot" ELSE "create"
            /\ UNCHANGED outcome
       ELSE /\ Exit("err", "transport")
            /\ UNCHANGED << api, log >>
    /\ UNCHANGED << mode, realtimeOpt, botOrders, process, pending, overlap,
                    joined, playerId, gameStep, iteration, engineEnded, commands,
                    actions, debugCmds, issued, opsLeft, dropped >>
    /\ UNCHANGED worldVars

ConnectToWebsocket(c, ok) ==
    /\ pc = "connect_" \o c
    /\ IF ok
       THEN /\ api' = [api EXCEPT ![c] = TRUE]
            /\ log' = Append(log, Ev("conn", c, "connect", TRUE, ""))
            /\ pc' = IF c = "host" THEN "connect_bot"
                     ELSE IF mode = "ladder" THEN "join2_bot" ELSE "create"
       ELSE UNCHANGED << api, log, pc >>
    /\ UNCHANGED << mode, realtimeOpt, botOrders, outcome, process, pending, overlap,
                    joined, playerId, gameStep, iteration, engineEnded, commands,
                    actions, debugCmds, issued, opsLeft, dropped >>
    /\ UNCHANGED worldVars

\* create-game whose response error is not looked at
CreateGameIgnoringError(ok, err) ==
    /\ pc = "create"
    /\ Commit(APISend(Net, CreateConn, "create_game", ok, err))
    /\ IF ~ok THEN Exit("err", "transport")
       ELSE /\ pc' = IF mode = "human" THEN "join2_host" ELSE "join2_bot"
            /\ UNCHANGED outcome
    /\ UNCHANGED << mode, realtimeOpt, botOrders, api, process, joined, playerId,
                    gameStep, iteration, engineEnded, commands, actions,
                    debugCmds, issued, opsLeft, dropped >>
    /\ UNCHANGED worldVars

CreateGame(ok, err) ==
    /\ pc = "create"
    /\ Commit(APISend(Net, CreateConn, "create_game", ok, err))
    /\ IF ~ok THEN Exit("err", "transport")
       ELSE IF err # "" THEN Exit("panic", err)
       ELSE /\ pc' = IF mode = "human" THEN "join2_host" ELSE "join2_bot"
            /\ UNCHANGED outcome
    /\ UNCHANGED << mode, realtimeOpt, botOrders, api, process, joined, playerId,
                    gameStep, iteration, engineEnded, commands, actions,
                    debugCmds, issued, opsLeft, dropped >>
    /\ UNCHANGED worldVars

\* the port of this program's first engine process
PORT == 5000

Ports(shared, server, client) == [shared |-> shared, server |-> server, client |-> client]

\* run_vs_human: let ports = Ports { .. }
HumanPorts ==
    Ports(PORT + 2, << PORT + 3, PORT + 4 >>,
          << << PORT + 5, PORT + 6 >>, << PORT + 7, PORT + 8 >> >>)

\* run_ladder_game: the block made from the caller's player port
LadderPorts(player_port) ==
    Ports(player_port + 1, << player_port + 2, player_port + 3 >>,
          << << player_port + 4, player_port + 5 >> >>)

\* the player ports a ladder manager passes
PlayerPorts == { PORT + 10, PORT + 20 }

\* the ports argument of join_game / join_game2 in each run function
JoinPorts(player_port) ==
    IF mode = "computer" THEN None
    ELSE IF mode = "human" THEN Some(HumanPorts)
    ELSE Some(LadderPorts(player_port))

\* a join request that carries no client ports
JoinRequestWithoutClientPorts(ports) ==
    IF ports = None
    THEN [shared_port |-> None, server_ports |-> None, client_ports |-> <<>>]
    ELSE [shared_port |-> Some(ports[1].shared),
          server_ports |-> Some(ports[1].server),
          client_ports |-> <<>>]

\* the port fields of the join request: optional shared_port, optional
\* server_ports (game port, base port), repeated client_ports
JoinRequest(ports) ==
    IF ports = None
    THEN [shared_port |-> None, server_ports |-> None, client_ports |-> <<>>]
    ELSE [shared_port |-> Some(ports[1].shared),
          server_ports |-> Some(ports[1].server),
          client_ports |-> ports[1].client]

JoinGame2(c, ok, player_port) ==
    /\ pc = "join2_" \o c
    /\ Commit(APISendOnly(Net, c, "join_game", ok, JoinRequest(JoinPorts(player_port))))
    /\ IF ~ok THEN Exit("err", "transport")
       ELSE /\ pc' = IF c = "host" THEN "join2_bot"
                     ELSE IF mode = "human" THEN "wait_host" ELSE "wait_bot"
            /\ UNCHANGED outcome
    /\ UNCHANGED << mode, realtimeOpt, botOrders, api, process, joined, playerId,
                    gameStep, iteration, engineEnded, commands, actions,
                    debugCmds, issued, opsLeft, dropped >>
    /\ UNCHANGED worldVars

\* wait_join whose error response is not looked at
\* the join response: get_error and get_player_id
JoinResponse(err, pid) == [error |-> err, player_id |-> pid]

WaitJoinIgnoringError(c, ok, err, pid) ==
    /\ pc = "wait_" \o c
    /\ Commit(APIWaitResponse(Net, c, "join_game", ok,
                               IF ok THEN JoinResponse(err, pid) ELSE err))
    /\ IF ~ok THEN Exit("err", "transport") /\ UNCHANGED << joined, playerId >>
       ELSE /\ joined' = [joined EXCEPT ![c] = (err = "")]
            /\ playerId' = IF c = "bot" THEN pid ELSE playerId
            /\ pc' = IF c = "host" THEN "wait_bot" ELSE "game_info"
            /\ UNCHANGED outcome
    /\ UNCHANGED << mode, realtimeOpt, botOrders, api, process, gameStep,
                    iteration, engineEnded, commands, actions, debugCmds,
                    issued, opsLeft, dropped >>
    /\ UNCHANGED worldVars

WaitJoinStoringEveryId(c, ok, err, pid) ==
    /\ pc = "wait_" \o c
    /\ Commit(APIWaitResponse(Net, c, "join_game", ok,
                               IF ok THEN JoinResponse(err, pid) ELSE err))
    /\ IF ~ok THEN Exit("err", "transport") /\ UNCHANGED << joined, playerId >>
       ELSE IF err # "" THEN Exit("err", err) /\ UNCHANGED << joined, playerId >>
       ELSE /\ joined' = [joined EXCEPT ![c] = TRUE]
            /\ playerId' = pid
            /\ pc' = IF c = "host" THEN "wait_bot" ELSE "game_info"
            /\ UNCHANGED outcome
    /\ UNCHANGED << mode, realtimeOpt, botOrders, api, process, gameStep,
                    iteration, engineEnded, commands, actions, debugCmds,
                    issued, opsLeft, dropped >>
    /\ UNCHANGED worldVars

WaitJoin(c, ok, err, pid) ==
    /\ pc = "wait_" \o c
    /\ Commit(APIWaitResponse(Net, c, "join_game", ok,
                               IF ok THEN JoinResponse(err, pid) ELSE err))
    /\ IF ~ok THEN Exit("err", "transport") /\ UNCHANGED << joined, playerId >>
       ELSE IF err # "" THEN Exit("err", err) /\ UNCHANGED << joined, playerId >>
       ELSE /\ joined' = [joined EXCEPT ![c] = TRUE]
            /\ playerId' = IF c = "bot" THEN pid ELSE playerId
            /\ pc' = IF c = "host" THEN "wait_bot" ELSE "game_info"
            /\ UNCHANGED outcome
    /\ UNCHANGED << mode, realtimeOpt, botOrders, api, process, gameStep,
                    iteration, engineEnded, commands, actions, debugCmds,
                    issued, opsLeft, dropped >>
    /\ UNCHANGED worldVars

SetStaticData_GameInfo(ok) ==
    /\ pc = "game_info"
    /\ Commit(APISend(Net, "bot", "game_info", ok, ""))
    /\ IF ok THEN pc' = "game_data" /\ UNCHANGED outcome
             ELSE Exit("err", "transport")
    /\ UNCHANGED << mode, realtimeOpt, botOrders, api, process, joined, playerId,
                    gameStep, iteration, engineEnded, commands, actions,
                    debugCmds, issued, opsLeft, dropped >>
    /\ UNCHANGED worldVars

SetStaticData_GameData(ok) ==
    /\ pc = "game_data"
    /\ Commit(APISend(Net, "bot", "data", ok, ""))
    /\ IF ok THEN pc' = "first_obs" /\ UNCHANGED outcome
             ELSE Exit("err", "transport")
    /\ UNCHANGED << mode, realtimeOpt, botOrders, api, process, joined, playerId,
                    gameStep, iteration, engineEnded, commands, actions,
                    debugCmds, issued, opsLeft, dropped >>
    /\ UNCHANGED worldVars

(***************************************************************************)
(* Command aggregator: Unit::command into Commander.commands, Bot::chat,    *)
(* Bot::get_actions, Bot::clear_actions.                                    *)
(***************************************************************************)
\* commands.entry(key).or_default().push(tag)
CommanderPush(cmds, key, tag) ==
    IF key \in DOMAIN cmds
    THEN [cmds EXCEPT ![key] = Append(@, tag)]
    ELSE [k \in DOMAIN cmds \cup {key} |-> IF k = key THEN <<tag>> ELSE cmds[k]]

\* the orders in which a HashMap of these keys may be iterated
IterationOrders(S) ==
    { o \in [1..Cardinality(S) -> S] : \A i, j \in 1..Cardinality(S) : o[i] = o[j] => i = j }

UnitCommandAction(key, tags) == [kind |-> "UnitCommand", key |-> key, tags |-> tags, text |-> ""]
ChatAction(text) == [kind |-> "Chat", key |-> <<>>, tags |-> <<>>, text |-> text]

\* the tags of the commands cmds iterated in order o, one (key, tag) per order
RECURSIVE OrdersOf(_, _)
OrdersOf(cmds, o) ==
    IF Len(o) = 0 THEN <<>>
    ELSE [j \in 1..Len(cmds[o[1]]) |-> <<o[1], cmds[o[1]][j]>>]
            \o OrdersOf(cmds, Tail(o))

\* get_actions without batching: one unit command per issuing unit
GetActionsPerUnit(acts, cmds, o) ==
    IF DOMAIN cmds # {}
    THEN acts \o [i \in 1..Len(OrdersOf(cmds, o)) |->
                     UnitCommandAction(OrdersOf(cmds, o)[i][1],
                                       << OrdersOf(cmds, o)[i][2] >>)]
    ELSE acts

\* Bot::get_actions, the commands iterated in order o
GetActions(acts, cmds, o) ==
    IF DOMAIN cmds # {}
    THEN acts \o [i \in 1..Len(o) |-> UnitCommandAction(o[i], cmds[o[i]])]
    ELSE acts

(***************************************************************************)
(* The callbacks on_start / on_step while they run: the bot program issues  *)
(* orders, chat, debug commands, queries, and may change game_step.         *)
(***************************************************************************)
InCallback == pc \in {"on_start", "on_step"}

UnitCommand(tag, key) ==
    /\ InCallback /\ opsLeft > 0
    /\ <<tag, key>> \in botOrders
    /\ commands' = CommanderPush(commands, key, tag)
    /\ issued' = issued \cup {<<tag, key>>}
    /\ opsLeft' = opsLeft - 1
    /\ UNCHANGED << mode, realtimeOpt, botOrders, pc, outcome, api, process, pending,
                    overlap, joined, playerId, gameStep, iteration, engineEnded,
                    actions, debugCmds, dropped, log >>
    /\ UNCHANGED worldVars

\* the chat calls since the tick began, as <<"chat", n, text>> for the n-th
ChatsIssued == { q \in issued : Len(q) = 3 }

\* a chat that drops a message equal to one already pending
ChatOnce(text) ==
    /\ InCallback /\ opsLeft > 0
    /\ actions' = IF \E n \in DOMAIN actions : actions[n] = ChatAction(text)
                  THEN actions
                  ELSE Append(actions, ChatAction(text))
    /\ issued' = issued \cup { << "chat", Cardinality(ChatsIssued) + 1, text >> }
    /\ opsLeft' = opsLeft - 1
    /\ UNCHANGED << mode, realtimeOpt, botOrders, pc, outcome, api, process, pending,
                    overlap, joined, playerId, gameStep, iteration, engineEnded,
                    commands, debugCmds, dropped, log >>
    /\ UNCHANGED worldVars

Chat(text) ==
    /\ InCallback /\ opsLeft > 0
    /\ actions' = Append(actions, ChatAction(text))
    /\ issued' = issued \cup { << "chat", Cardinality(ChatsIssued) + 1, text >> }
    /\ opsLeft' = opsLeft - 1
    /\ UNCHANGED << mode, realtimeOpt, botOrders, pc, outcome, api, process, pending,
                    overlap, joined, playerId, gameStep, iteration, engineEnded,
                    commands, debugCmds, dropped, log >>
    /\ UNCHANGED worldVars

DebugCommand ==
    /\ InCallback /\ opsLeft > 0
    /\ debugCmds' = Append(debugCmds, "draw")
    /\ opsLeft' = opsLeft - 1
    /\ UNCHANGED << mode, realtimeOpt, botOrders, pc, outcome, api, process, pending,
                    overlap, joined, playerId, gameStep, iteration, engineEnded,
                    commands, actions, issued, dropped, log >>
    /\ UNCHANGED worldVars

SetGameStep(n) ==
    /\ InCallback /\ opsLeft > 0
    /\ n # gameStep
    /\ gameStep' = n
    /\ opsLeft' = opsLeft - 1
    /\ UNCHANGED << mode, realtimeOpt, botOrders, pc, outcome, api, process, pending,
                    overlap, joined, playerId, iteration, engineEnded, commands,
                    actions, debugCmds, issued, dropped, log >>
    /\ UNCHANGED worldVars

\* Bot::query_pathing / query_placement called by the bot program
Query(ok) ==
    /\ InCallback /\ opsLeft > 0
    /\ Commit(APISend(Net, "bot", "query", ok, ""))
    /\ opsLeft' = opsLeft - 1
    /\ UNCHANGED << mode, realtimeOpt, botOrders, pc, outcome, api, process, joined,
                    playerId, gameStep, iteration, engineEnded, commands, actions,
                    debugCmds, issued, dropped >>
    /\ UNCHANGED worldVars

(***************************************************************************)
(* play_first_step                                                          *)
(***************************************************************************)
Status(ended) == IF ended THEN "ended" ELSE "in_game"

\* observation request, init_data_for_unit, prepare_start, entry to on_start
PlayFirstStep_Observation(ok, ended, prepared) ==
    /\ pc = "first_obs"
    /\ LET st == APISend([Net EXCEPT !.log = TickBegins("play_first_step")], "bot",
                         "observation", ok, <<Status(ended), <<>> >>)
       IN  IF ~ok
           THEN /\ Commit(st) /\ Exit("err", "transport")
                /\ UNCHANGED << engineEnded, opsLeft >>
           ELSE /\ engineEnded' = ended
                /\ IF prepared
                   THEN /\ Commit(Logged(st, Ev("call", "-", "on_start", TRUE, 0)))
                        /\ pc' = "on_start"
                        /\ opsLeft' = MaxOps
                        /\ UNCHANGED outcome
                   ELSE /\ Commit(st) /\ Exit("panic", "prepare_start")
                        /\ UNCHANGED opsLeft
    /\ issued' = {}
    /\ UNCHANGED << mode, realtimeOpt, botOrders, api, process, joined, playerId,
                    gameStep, iteration, commands, actions, debugCmds, dropped >>
    /\ callbacks' = IF ok /\ prepared THEN Append(callbacks, << "on_start", 0 >>)
                    ELSE callbacks
    /\ UNCHANGED << viewVars, queried >>

OnStartReturn(ok) ==
    /\ pc = "on_start"
    /\ log' = Append(log, Ev("ret", "-", "on_start", ok, 0))
    /\ IF ok THEN pc' = "first_flush" /\ UNCHANGED outcome
             ELSE Exit("err", "callback")
    /\ UNCHANGED << mode, realtimeOpt, botOrders, api, process, pending, overlap,
                    joined, playerId, gameStep, iteration, engineEnded, commands,
                    actions, debugCmds, issued, opsLeft, dropped >>
    /\ UNCHANGED worldVars

PlayFirstStep_FlushActions(ok, o) ==
    /\ pc = "first_flush"
    /\ LET bot_actions == GetActions(actions, commands, o)
       IN  IF bot_actions # <<>>
           THEN /\ actions' = <<>>
                /\ commands' = EmptyMap
                /\ Commit(APISendRequest(Net, "bot", "action", ok, bot_actions))
                /\ IF ok THEN pc' = "first_step" /\ UNCHANGED outcome
                         ELSE Exit("err", "transport")
           ELSE /\ ok
                /\ pc' = "first_step"
                /\ UNCHANGED << actions, commands, pending, overlap, log, outcome >>
    /\ UNCHANGED << mode, realtimeOpt, botOrders, api, process, joined, playerId,
                    gameStep, iteration, engineEnded, debugCmds, issued, opsLeft,
                    dropped >>
    /\ UNCHANGED worldVars

PlayFirstStep_Step(ok) ==
    /\ pc = "first_step"
    /\ IF ~Realtime
       THEN /\ Commit(APISendRequest(Net, "bot", "step", ok, gameStep))
            /\ IF ok THEN pc' = "loop" /\ UNCHANGED outcome
                     ELSE Exit("err", "transport")
       ELSE /\ ok
            /\ pc' = "loop"
            /\ UNCHANGED << pending, overlap, log, outcome >>
    /\ UNCHANGED << mode, realtimeOpt, botOrders, api, process, joined, playerId,
                    gameStep, iteration, engineEnded, commands, actions,
                    debugCmds, issued, opsLeft, dropped >>
    /\ UNCHANGED worldVars

(***************************************************************************)
(* play_step and the loop of the run function                               *)
(***************************************************************************)
\* element i (zero-based) of a list
At(list, i) == list[i + 1]

\* the result of the first listed player, whoever this player is
ResultOfFirstPlayer(results, player_id) == At(results, 0)

\* the terminal result decoded for this player
ResultFor(results, player_id) == At(results, player_id - 1)

ObservedStatus(e) == e.v[1]
ObservedResults(e) == e.v[2]

PlayStep_Observation(ok, ended, results) ==
    /\ pc = "loop"
    /\ iteration < MaxTicks
    /\ engineEnded => ended
    /\ Commit(APISend([Net EXCEPT !.log = TickBegins("play_step")], "bot",
                      "observation", ok,
                      <<Status(ended), IF ended THEN results ELSE <<>> >>))
    /\ IF ~ok THEN Exit("err", "transport") /\ UNCHANGED engineEnded
       ELSE /\ engineEnded' = ended
            /\ pc' = IF ended THEN "on_end" ELSE "abilities"
            /\ UNCHANGED outcome
    /\ issued' = {}
    /\ UNCHANGED << mode, realtimeOpt, botOrders, api, process, joined, playerId,
                    gameStep, iteration, commands, actions, debugCmds, opsLeft,
                    dropped >>
    /\ UNCHANGED worldVars

\* status ended: on_end(result), and the loop goes on as after a tick
PlayStep_OnEndContinuing(ok) ==
    /\ pc = "on_end"
    /\ LET result == ResultFor(ObservedResults(log[2]), playerId)
       IN  log' = log \o << Ev("call", "-", "on_end", TRUE, result),
                            Ev("ret", "-", "on_end", ok, result) >>
    /\ IF ok THEN pc' = "loop" /\ iteration' = iteration + 1 /\ UNCHANGED outcome
             ELSE Exit("err", "callback") /\ UNCHANGED iteration
    /\ UNCHANGED << mode, realtimeOpt, botOrders, api, process, pending, overlap,
                    joined, playerId, gameStep, engineEnded, commands,
                    actions, debugCmds, issued, opsLeft, dropped >>
    /\ callbacks' = Append(callbacks,
                           << "on_end", ResultFor(ObservedResults(log[2]), playerId) >>)
    /\ UNCHANGED << viewVars, queried >>

\* status ended: on_end(result), return Ok(false)
PlayStep_OnEnd(ok) ==
    /\ pc = "on_end"
    /\ LET result == ResultFor(ObservedResults(log[2]), playerId)
       IN  log' = log \o << Ev("call", "-", "on_end", TRUE, result),
                            Ev("ret", "-", "on_end", ok, result) >>
    /\ IF ok THEN pc' = "finished" /\ UNCHANGED outcome
             ELSE Exit("err", "callback")
    /\ UNCHANGED << mode, realtimeOpt, botOrders, api, process, pending, overlap,
                    joined, playerId, gameStep, iteration, engineEnded, commands,
                    actions, debugCmds, issued, opsLeft, dropped >>
    /\ callbacks' = Append(callbacks,
                           << "on_end", ResultFor(ObservedResults(log[2]), playerId) >>)
    /\ UNCHANGED << viewVars, queried >>

\* available-abilities query, bot.state = state, prepare_step, entry to on_step
PlayStep_QueryAbilities(ok) ==
    /\ pc = "abilities"
    /\ LET st == APISend(Net, "bot", "query_abilities", ok, "")
       IN  IF ok
           THEN /\ Commit(Logged(st, Ev("call", "-", "on_step", TRUE, iteration)))
                /\ pc' = "on_step"
                /\ opsLeft' = MaxOps
                /\ UNCHANGED outcome
           ELSE /\ Commit(st) /\ Exit("err", "transport")
                /\ UNCHANGED opsLeft
    /\ UNCHANGED << mode, realtimeOpt, botOrders, api, process, joined, playerId,
                    gameStep, iteration, engineEnded, commands, actions,
                    debugCmds, issued, dropped >>
    /\ callbacks' = IF ok THEN Append(callbacks, << "on_step", iteration >>)
                    ELSE callbacks
    /\ UNCHANGED << viewVars, queried >>

\* on_step whose failure is not propagated
OnStepReturnIgnoringFailure(ok) ==
    /\ pc = "on_step"
    /\ log' = Append(log, Ev("ret", "-", "on_step", ok, iteration))
    /\ pc' = "flush_actions"
    /\ UNCHANGED << mode, realtimeOpt, botOrders, outcome, api, process, pending,
                    overlap, joined, playerId, gameStep, iteration, engineEnded,
                    commands, actions, debugCmds, issued, opsLeft, dropped >>
    /\ UNCHANGED worldVars

OnStepReturn(ok) ==
    /\ pc = "on_step"
    /\ log' = Append(log, Ev("ret", "-", "on_step", ok, iteration))
    /\ IF ok THEN pc' = "flush_actions" /\ UNCHANGED outcome
             ELSE Exit("err", "callback")
    /\ UNCHANGED << mode, realtimeOpt, botOrders, api, process, pending, overlap,
                    joined, playerId, gameStep, iteration, engineEnded, commands,
                    actions, debugCmds, issued, opsLeft, dropped >>
    /\ UNCHANGED worldVars

\* the flush with clear_actions after the send_request?: a failed send leaves
\* the batch in place
PlayStep_FlushActionsClearingAfterSend(ok, o) ==
    /\ pc = "flush_actions"
    /\ LET bot_actions == GetActions(actions, commands, o)
       IN  IF bot_actions # <<>>
           THEN /\ Commit(APISendRequest(Net, "bot", "action", ok, bot_actions))
                /\ IF ok THEN /\ actions' = <<>>
                              /\ commands' = EmptyMap
                              /\ pc' = "flush_debug" /\ UNCHANGED outcome
                         ELSE /\ Exit("err", "transport")
                              /\ UNCHANGED << actions, commands >>
           ELSE /\ ok
                /\ pc' = "flush_debug"
                /\ UNCHANGED << actions, commands, pending, overlap, log, outcome >>
    /\ UNCHANGED << mode, realtimeOpt, botOrders, api, process, joined, playerId,
                    gameStep, iteration, engineEnded, debugCmds, issued, opsLeft,
                    dropped >>
    /\ UNCHANGED worldVars

PlayStep_FlushActions(ok, o) ==
    /\ pc = "flush_actions"
    /\ LET bot_actions == GetActions(actions, commands, o)
       IN  IF bot_actions # <<>>
           THEN /\ actions' = <<>>
                /\ commands' = EmptyMap
                /\ Commit(APISendRequest(Net, "bot", "action", ok, bot_actions))
                /\ IF ok THEN pc' = "flush_debug" /\ UNCHANGED outcome
                         ELSE Exit("err", "transport")
           ELSE /\ ok
                /\ pc' = "flush_debug"
                /\ UNCHANGED << actions, commands, pending, overlap, log, outcome >>
    /\ UNCHANGED << mode, realtimeOpt, botOrders, api, process, joined, playerId,
                    gameStep, iteration, engineEnded, debugCmds, issued, opsLeft,
                    dropped >>
    /\ UNCHANGED worldVars

PlayStep_FlushDebug(ok) ==
    /\ pc = "flush_debug"
    /\ IF debugCmds # <<>>
       THEN /\ debugCmds' = <<>>
            /\ Commit(APISendRequest(Net, "bot", "debug", ok, debugCmds))
            /\ IF ok THEN pc' = "step" /\ UNCHANGED outcome
                     ELSE Exit("err", "transport")
       ELSE /\ ok
            /\ pc' = "step"
            /\ UNCHANGED << debugCmds, pending, overlap, log, outcome >>
    /\ UNCHANGED << mode, realtimeOpt, botOrders, api, process, joined, playerId,
                    gameStep, iteration, engineEnded, commands, actions, issued,
                    opsLeft, dropped >>
    /\ UNCHANGED worldVars

\* a step-advance sent whatever the realtime flag says
PlayStep_StepIgnoringRealtime(ok) ==
    /\ pc = "step"
    /\ Commit(APISendRequest(Net, "bot", "step", ok, gameStep))
    /\ IF ok THEN pc' = "loop" /\ iteration' = iteration + 1 /\ UNCHANGED outcome
             ELSE Exit("err", "transport") /\ UNCHANGED iteration
    /\ UNCHANGED << mode, realtimeOpt, botOrders, api, process, joined, playerId,
                    gameStep, engineEnded, commands, actions, debugCmds, issued,
                    opsLeft, dropped >>
    /\ UNCHANGED worldVars

\* the step-advance request, return Ok(true), iteration += 1
PlayStep_Step(ok) ==
    /\ pc = "step"
    /\ IF ~Realtime
       THEN /\ Commit(APISendRequest(Net, "bot", "step", ok, gameStep))
            /\ IF ok THEN pc' = "loop" /\ iteration' = iteration + 1 /\ UNCHANGED outcome
                     ELSE Exit("err", "transport") /\ UNCHANGED iteration
       ELSE /\ ok
            /\ pc' = "loop"
            /\ iteration' = iteration + 1
            /\ UNCHANGED << pending, overlap, log, outcome >>
    /\ UNCHANGED << mode, realtimeOpt, botOrders, api, process, joined, playerId,
                    gameStep, engineEnded, commands, actions, debugCmds, issued,
                    opsLeft, dropped >>
    /\ UNCHANGED worldVars

(***************************************************************************)
(* After the loop: save_replay when a path was given, then Ok(()).          *)
(***************************************************************************)
\* A path is the sequence of its components and a component the sequence of
\* the parts between its dots: game.SC2Replay is << "game", "SC2Replay" >> and
\* the component .SC2Replay is << "", "SC2Replay" >>.
DotSC2Replay == << << "", "SC2Replay" >> >>

\* Path::ends_with: the components of child are the last components of path
PathEndsWith(path, child) ==
    /\ Len(path) >= Len(child)
    /\ SubSeq(path, Len(path) - Len(child) + 1, Len(path)) = child

\* PathBuf::push of a relative path: its components are appended
PathPush(path, child) == path \o child

\* the path save_replay creates the file at
ReplayPath(path) ==
    IF ~PathEndsWith(path, DotSC2Replay) THEN PathPush(path, DotSC2Replay) ELSE path

\* the paths a caller passes as save_replay_as
ReplayPaths ==
    { << << "game" >> >>,
      << << "replays" >>, << "game", "SC2Replay" >> >>,
      << << "replays" >>, << "", "SC2Replay" >> >> }

\* the replay bytes of the engine's response
ReplayData == { << 1 >>, << 2, 3 >> }

\* written: File::create and write_all both succeeded
SaveReplay(ok, written, path, data) ==
    /\ pc = "finished"
    /\ mode # "ladder"
    /\ LET st == APISend(Net, "bot", "save_replay", ok, data)
       IN  Commit(IF ok
                  THEN Logged(st, Ev("file", "bot", "save_replay", written,
                                     [given |-> path, created |-> ReplayPath(path),
                                      data |-> data]))
                  ELSE st)
    /\ IF ~ok THEN Exit("err", "transport")
       ELSE IF ~written THEN Exit("err", "io")
       ELSE Exit("ok", "")
    /\ UNCHANGED << mode, realtimeOpt, botOrders, api, process, joined, playerId,
                    gameStep, iteration, engineEnded, commands, actions,
                    debugCmds, issued, opsLeft, dropped >>
    /\ UNCHANGED worldVars

RunReturn ==
    /\ pc = "finished"
    /\ Exit("ok", "")
    /\ UNCHANGED << mode, realtimeOpt, botOrders, api, process, pending, overlap,
                    joined, playerId, gameStep, iteration, engineEnded, commands,
                    actions, debugCmds, issued, opsLeft, dropped, log >>
    /\ UNCHANGED worldVars

(***************************************************************************)
(* Teardown: impl Drop for Human (at the end of run_vs_human) and impl Drop *)
(* for Bot (when the caller's bot goes away).                               *)
(***************************************************************************)
\* a destructor that gives up at the first failed request
DropRequestsStoppingAtFailure(st, c, okLeave, okQuit) ==
    IF api[c]
    THEN IF okLeave
         THEN APISendRequest(APISendRequest(st, c, "leave_game", okLeave, ""),
                             c, "quit", okQuit, "")
         ELSE APISendRequest(st, c, "leave_game", okLeave, "")
    ELSE st

DropRequests(st, c, okLeave, okQuit) ==
    IF api[c]
    THEN APISendRequest(APISendRequest(st, c, "leave_game", okLeave, ""),
                        c, "quit", okQuit, "")
    ELSE st

DropKill(st, c, okKill) ==
    IF process[c] THEN Logged(st, Ev("proc", c, "kill", okKill, "")) ELSE st

\* The destructor of controller c.  Its events begin a new log; with the Bot
\* its fields go away (api and process keep what the controller held).
Drop(c, okLeave, okQuit, okKill) ==
    /\ pc = "exited"
    /\ c \notin dropped
    /\ c = "host" => mode = "human"
    /\ c = "bot" /\ mode = "human" => "host" \in dropped
    /\ api[c] \/ (okLeave /\ okQuit)
    /\ process[c] \/ okKill
    /\ Commit(DropKill(DropRequests([Net EXCEPT !.log = <<>>], c, okLeave, okQuit),
                       c, okKill))
    /\ dropped' = dropped \cup {c}
    /\ IF c = "bot"
       THEN /\ commands' = EmptyMap
            /\ actions' = <<>>
            /\ debugCmds' = <<>>
            /\ issued' = {}
            /\ opsLeft' = 0
            /\ gameStep' = 1
            /\ playerId' = 0
            /\ iteration' = 0
       ELSE UNCHANGED << commands, actions, debugCmds, issued, opsLeft, gameStep,
                         playerId, iteration >>
    /\ UNCHANGED << mode, realtimeOpt, botOrders, pc, outcome, api, process, joined,
                    engineEnded >>
    /\ UNCHANGED worldVars

(***************************************************************************)
(* Specifications                                                           *)
(***************************************************************************)
Setup(ok) ==
    \/ \E c \in Controllers : LaunchClient(c, ok)
    \/ \E c \in Controllers : ConnectToWebsocket(c, ok)
    \/ \E err \in CreateErrors \cup {""} : CreateGame(ok, err)
    \/ \E c \in Controllers, player_port \in PlayerPorts : JoinGame2(c, ok, player_port)
    \/ \E c \in Controllers, err \in JoinErrors \cup {""}, pid \in PlayerIds :
          WaitJoin(c, ok, err, pid)
    \/ SetStaticData_GameInfo(ok)
    \/ SetStaticData_GameData(ok)

Callback(ok) ==
    \/ \E tag \in Tags, key \in Keys : ok /\ UnitCommand(tag, key)
    \/ \E text \in ChatTexts : ok /\ Chat(text)
    \/ ok /\ DebugCommand
    \/ \E n \in GameSteps : ok /\ SetGameStep(n)
    \/ Query(ok)
    \/ OnStartReturn(ok)
    \/ OnStepReturn(ok)

Ticks(ok) ==
    \/ \E ended, prepared \in BOOLEAN : PlayFirstStep_Observation(ok, ended, prepared)
    \/ \E o \in IterationOrders(DOMAIN commands) : PlayFirstStep_FlushActions(ok, o)
    \/ PlayFirstStep_Step(ok)
    \/ \E ended \in BOOLEAN, results \in PlayerResults :
          PlayStep_Observation(ok, ended, results)
    \/ PlayStep_OnEnd(ok)
    \/ PlayStep_QueryAbilities(ok)
    \/ \E o \in IterationOrders(DOMAIN commands) : PlayStep_FlushActions(ok, o)
    \/ PlayStep_FlushDebug(ok)
    \/ PlayStep_Step(ok)
    \/ \E written \in BOOLEAN, path \in ReplayPaths, data \in ReplayData :
          SaveReplay(ok, written, path, data)
    \/ ok /\ RunReturn

Teardown(ok) ==
    \E c \in Controllers, okQuit, okKill \in BOOLEAN : Drop(c, ok, okQuit, okKill)

Next == \E ok \in BOOLEAN : Setup(ok) \/ Callback(ok) \/ Ticks(ok) \/ Teardown(ok)

Spec == Init /\ [][Next]_vars

\* a bot program free to issue any order from any unit, against an engine and
\* a transport that do not fail: the contents of the action requests
InitCmd ==
    /\ InitCommon
    /\ mode = "computer"
    /\ botOrders = Tags \X Keys

NextCmd == Setup(TRUE) \/ Callback(TRUE) \/ Ticks(TRUE) \/ Teardown(TRUE)

SpecCmd == InitCmd /\ [][NextCmd]_vars

(***************************************************************************)
(* Queries of the bot program: the expansion lists, get_expansion,          *)
(* query_pathing, query_placement and can_place, and what the engine may    *)
(* answer to a query of n candidates.                                       *)
(***************************************************************************)
ExpansionRadius == 15

\* action::Target
TargetTag(tag) == << "Tag", tag >>
TargetPos(pos) == << "Pos", pos >>
TargetNone == << "None" >>

\* the path lengths the engine reports, and the results of a placement
Distances == {1, 2}
ActionResults == {"Success", "CantBuildLocationInvalid"}

\* ResponseQueryPathing: a distance or none; ResponseQueryBuildingPlacement: a
\* result of the protocol
PathingResponses(n) ==
    [1..n -> { [distance |-> d] : d \in {None} \cup { Some(x) : x \in Distances } }]
PlacementResponses(n) ==
    [1..n -> { [result |-> [proto |-> r]] : r \in ActionResults }]

\* ActionResult::from_proto: the result of the crate named as the protocol's
FromProto(result) == result.proto

\* the townhalls of a side within the radius of a location
AnyCloser(townhalls, location) ==
    \E i \in DOMAIN townhalls :
       IsCloser(ExpansionRadius, townhalls[i].position, location)
AllFurther(townhalls, location) ==
    \A i \in DOMAIN townhalls :
       IsFurther(ExpansionRadius, townhalls[i].position, location)

\* Bot::owned_expansions
OwnedExpansions(b) ==
    SelectSeq(b.expansions, LAMBDA e : AnyCloser(b.units.my.townhalls, e[1]))
\* Bot::enemy_expansions
EnemyExpansions(b) ==
    SelectSeq(b.expansions, LAMBDA e : AnyCloser(b.units.enemy.townhalls, e[1]))
\* free_expansions without the test of the enemy's townhalls
FreeExpansionsIgnoringEnemy(b) ==
    SelectSeq(b.expansions, LAMBDA e : AllFurther(b.units.my.townhalls, e[1]))
\* Bot::free_expansions
FreeExpansions(b) ==
    SelectSeq(b.expansions, LAMBDA e : /\ AllFurther(b.units.my.townhalls, e[1])
                                       /\ AllFurther(b.units.enemy.townhalls, e[1]))

\* the requests query_pathing pushes, one per path in their order
PathingRequest(paths) ==
    [i \in DOMAIN paths |-> [start |-> paths[i][1], end_pos |-> paths[i][2]]]
\* query_pathing: a path without a start panics
PathingPanics(paths) == \E i \in DOMAIN paths : paths[i][1] = TargetNone
\* the distances of the response, reachable candidates only
QueryPathingReachableOnly(response) ==
    LET all == [i \in DOMAIN response |-> response[i].distance]
    IN  SelectSeq(all, LAMBDA d : d # None)
\* query_pathing: the distance of every entry of the response, in its order
QueryPathingResult(response) ==
    [i \in DOMAIN response |-> response[i].distance]

\* the request query_placement builds
PlacementRequest(places, check_resources) ==
    [ignore_resource_requirements |-> ~check_resources,
     placements |-> [i \in DOMAIN places |->
                        [ability_id |-> places[i][1], target_pos |-> places[i][2],
                         placing_unit_tag |-> places[i][3]]]]
\* query_placement: the result of every entry of the response, in its order
QueryPlacementResult(response) ==
    [i \in DOMAIN response |-> FromProto(response[i].result)]

\* get_expansion: the expansions no own townhall is near
GetExpansionCandidates(b) ==
    SelectSeq(b.expansions, LAMBDA e : AllFurther(b.units.my.townhalls, e[1]))
\* get_expansion: a path from the start location to every candidate
GetExpansionPaths(b, candidates) ==
    [i \in DOMAIN candidates |-> << TargetPos(b.start_location), candidates[i][1] >>]
\* get_expansion: zip, filter_map, min_by (the first of the nearest), map
GetExpansionResult(candidates, paths) ==
    LET reachable == { i \in DOMAIN candidates : i \in DOMAIN paths /\ paths[i] # None }
    IN  IF reachable = {} THEN None
        ELSE Some(candidates[CHOOSE i \in reachable :
                                \A j \in reachable \ {i} :
                                   \/ paths[i][1] < paths[j][1]
                                   \/ paths[i][1] = paths[j][1] /\ i < j])

\* a call of the bot program, what it sent, what the engine answered and what
\* it returned
Call(fn, requests, response, result) ==
    [fn |-> fn, requests |-> requests, response |-> response, result |-> result]

(***************************************************************************)
(* The world specification: the ticks of a session against an engine and a  *)
(* transport that do not fail, each tick taken whole at its                 *)
(* synchronization (play_first_step: prepare_start; play_step:              *)
(* prepare_step), for every snapshot the engine may report.                 *)
(***************************************************************************)
\* play_first_step: bot.state = state; bot.prepare_start()
PlayFirstStep_Sync(snapshot) ==
    /\ pc = "first_obs"
    /\ LET b == PrepareStart(Bot, snapshot, game_info)
       IN  Synchronized(b, snapshot)
    /\ IF PrepareStartPanic(UpdateUnits(Bot, snapshot), game_info) = ""
       THEN pc' = "loop" /\ UNCHANGED outcome
       ELSE Exit("panic", "prepare_start")
    /\ UNCHANGED << mode, realtimeOpt, botOrders, api, process, pending, overlap,
                    joined, playerId, gameStep, iteration, engineEnded, commands,
                    actions, debugCmds, issued, opsLeft, dropped, log, game_info,
                    observed, callbacks, ramp, data_for_unit, raw, supply_cap,
                    supply_used, supply_left, observed_data >>
    /\ queried' = <<>>

\* play_step: bot.state = state; bot.prepare_step()
PlayStep_Sync(snapshot) ==
    /\ pc = "loop"
    /\ iteration < MaxTicks
    /\ LET b == PrepareStep(Bot, snapshot)
       IN  Synchronized(b, snapshot)
    /\ iteration' = iteration + 1
    /\ UNCHANGED << mode, realtimeOpt, botOrders, pc, outcome, api, process, pending,
                    overlap, joined, playerId, gameStep, engineEnded, commands,
                    actions, debugCmds, issued, opsLeft, dropped, log, game_info,
                    observed, callbacks, ramp, data_for_unit, raw, supply_cap,
                    supply_used, supply_left, observed_data >>
    /\ queried' = <<>>

\* the session joined and its static data stored, on one of the maps
\* the state at the first observation, but for the map and the ramp
InitWorldBase ==
    /\ mode = "computer"
    /\ realtimeOpt = FALSE
    /\ botOrders = {}
    /\ pc = "first_obs"
    /\ outcome = Running
    /\ api = [c \in Controllers |-> c = "bot"]
    /\ process = [c \in Controllers |-> c = "bot"]
    /\ pending = [c \in Controllers |-> <<>>]
    /\ overlap = {}
    /\ joined = [c \in Controllers |-> c = "bot"]
    /\ playerId = 1
    /\ gameStep = 1
    /\ iteration = 0
    /\ engineEnded = FALSE
    /\ commands = EmptyMap
    /\ actions = <<>>
    /\ debugCmds = <<>>
    /\ issued = {}
    /\ opsLeft = 0
    /\ dropped = {}
    /\ log = <<>>
    /\ state = <<>>
    /\ units = EmptyAllUnits
    /\ techlab_tags = <<>>
    /\ reactor_tags = <<>>
    /\ max_cooldowns = EmptyMap
    /\ orders = EmptyMap
    /\ current_units = EmptyMap
    /\ start_location = Origin
    /\ enemy_start = Origin
    /\ start_center = [sum |-> Origin, n |-> 1]
    /\ enemy_start_center = [sum |-> Origin, n |-> 1]
    /\ expansions = <<>>
    /\ reported = {}
    /\ queried = <<>>
    /\ observed = <<>>
    /\ callbacks = <<>>
    /\ ContextNew

InitWorld ==
    /\ InitWorldBase
    /\ game_info \in Maps
    /\ ramp = RampDefault

NextWorld ==
    \/ \E snapshot \in Snapshots : PlayFirstStep_Sync(snapshot)
    \/ \E snapshot \in Snapshots : PlayStep_Sync(snapshot)

SpecWorld == InitWorld /\ [][NextWorld]_vars

(***************************************************************************)
(* The query specification: the world specification on the scenes, with    *)
(* the bot program calling the expansion lists and the queries between the  *)
(* ticks.  The transport does not fail and the engine answers a query with  *)
(* one entry per candidate.                                                 *)
(***************************************************************************)
\* the call returns to the bot program
Returns(call) ==
    /\ pc = "loop"
    /\ queried' = call
    /\ UNCHANGED << sessionVars, viewVars, callbacks >>

\* the call unwinds through the bot program and the run function
Panics(call, detail) ==
    /\ pc = "loop"
    /\ queried' = call
    /\ Exit("panic", detail)
    /\ UNCHANGED << mode, realtimeOpt, botOrders, api, process, pending, overlap,
                    joined, playerId, gameStep, iteration, engineEnded, commands,
                    actions, debugCmds, issued, opsLeft, dropped, log >>
    /\ UNCHANGED << viewVars, callbacks >>

\* the bot program calls Bot::owned_expansions
CallOwnedExpansions ==
    /\ pc = "loop"
    /\ Returns(Call("owned_expansions", <<>>, <<>>, OwnedExpansions(Bot)))
\* the bot program calls Bot::enemy_expansions
CallEnemyExpansions ==
    /\ pc = "loop"
    /\ Returns(Call("enemy_expansions", <<>>, <<>>, EnemyExpansions(Bot)))
\* the bot program calls Bot::free_expansions
CallFreeExpansions ==
    /\ pc = "loop"
    /\ Returns(Call("free_expansions", <<>>, <<>>, FreeExpansions(Bot)))

\* Bot::get_expansion, the engine answering its pathing query with response
GetExpansion(response) ==
    /\ pc = "loop"
    /\ Len(response) = Len(GetExpansionCandidates(Bot))
    /\ LET candidates == GetExpansionCandidates(Bot)
           paths == GetExpansionPaths(Bot, candidates)
       IN  Returns(Call("get_expansion", << PathingRequest(paths) >>, response,
                        GetExpansionResult(candidates, QueryPathingResult(response))))

\* Bot::query_pathing called by the bot program
QueryPathing(paths, response) ==
    IF PathingPanics(paths)
    THEN /\ response = <<>>
         /\ Panics(Call("query_pathing", <<>>, <<>>, None), "query_pathing")
    ELSE /\ Len(response) = Len(paths)
         /\ Returns(Call("query_pathing", << PathingRequest(paths) >>, response,
                         << "Ok", QueryPathingResult(response) >>))

\* Bot::query_placement called by the bot program
QueryPlacement(places, check_resources, response) ==
    /\ Len(response) = Len(places)
    /\ Returns(Call("query_placement",
                    << PlacementRequest(places, check_resources) >>, response,
                    << "Ok", QueryPlacementResult(response) >>))

\* Bot::can_place: game_data.units[&building].ability.unwrap(), then the
\* result of the single placement queried
CanPlace(building, pos, response) ==
    IF building \notin DOMAIN ProductionAbility
    THEN /\ response = <<>>
         /\ Panics(Call("can_place", <<>>, <<>>, None), "can_place")
    ELSE /\ Len(response) = 1
         /\ LET places == << << ProductionAbility[building], pos, None >> >>
            IN  Returns(Call("can_place", << PlacementRequest(places, FALSE) >>,
                             response,
                             QueryPlacementResult(response)[1] = "Success"))

\* the snapshots of the query specification
QuerySnapshots ==
    Scenes \cup { <<>>, << OwnCommandCenter >>, << EnemyCommandCenter >>,
                  << EnemyCommandCenter, OwnCommandCenter >> }

\* what the bot program asks: paths from a position, a unit or nothing, and
\* placements with and without a builder
NaturalLocation == <<85, 83>>
PathFromStart == << TargetPos(OwnStart), EnemyStart >>
PathFromUnit == << TargetTag("t3"), NaturalLocation >>
PathFromNowhere == << TargetNone, NaturalLocation >>
PathQueries ==
    { <<>>, << PathFromStart >>, << PathFromStart, PathFromUnit >>,
      << PathFromUnit, PathFromStart >>, << PathFromNowhere >>,
      << PathFromStart, PathFromNowhere >> }
PlaceBarracks == << "TerranBuildBarracks", <<50, 41>>, None >>
PlaceCommandCenter == << "TerranBuildCommandCenter", NaturalLocation, Some("t4") >>
PlacementQueries ==
    { <<>>, << PlaceBarracks >>, << PlaceBarracks, PlaceCommandCenter >>,
      << PlaceCommandCenter, PlaceBarracks >> }
Buildings == {"Barracks", "CommandCenter", "MineralField"}

(***************************************************************************)
(* Bot::find_placement: the position itself, then square rings around it.   *)
(***************************************************************************)
\* PlacementOptions::default()
PlacementOptionsDefault ==
    [max_distance |-> 15, step |-> 2, random |-> FALSE, addon |-> FALSE]

\* the footprint of an addon beside a building at pos: pos.offset(2.5, -0.5)
AddonPosition(pos) == << pos[1] + 5, pos[2] - 1 >>

\* (placement_step..max_distance).step_by(placement_step), in order
RECURSIVE RingDistances(_, _)
RingDistances(distance, options) ==
    IF distance >= options.max_distance THEN <<>>
    ELSE << distance >> \o RingDistances(distance + options.step, options)

\* (-distance..=distance).step_by(placement_step) from an offset on, and the
\* four positions of every offset, in the order of the flat_map
RECURSIVE RingPositions(_, _, _, _)
RingPositions(near, offset, distance, step) ==
    IF offset > distance THEN <<>>
    ELSE << Offset(near, offset, 0 - distance), Offset(near, offset, distance),
            Offset(near, 0 - distance, offset), Offset(near, distance, offset) >>
            \o RingPositions(near, offset + step, distance, step)

\* the engine's answer to a placement query: one entry per candidate
EngineAnswer(judgement, places) ==
    [i \in DOMAIN places |->
        [result |-> [proto |-> IF << places[i][1], places[i][2] >> \in judgement
                               THEN "Success"
                               ELSE "CantBuildLocationInvalid"]]]

\* positions.iter().zip(results.iter()).filter_map(..): the positions whose
\* result is Success, in order
RECURSIVE ValidPositions(_, _)
ValidPositions(positions, results) ==
    IF positions = <<>> \/ results = <<>> THEN <<>>
    ELSE (IF Head(results) = "Success" THEN << Head(positions) >> ELSE <<>>)
            \o ValidPositions(Tail(positions), Tail(results))

PlacesOf(ability, positions) ==
    [i \in DOMAIN positions |-> << ability, positions[i], None >>]

AddonPlaces(positions) ==
    [i \in DOMAIN positions |->
        << "TerranBuildSupplyDepot", AddonPosition(positions[i]), None >>]

\* one query of find_placement: what was sent, what came back, the results
PlacementQuery(judgement, places) ==
    [request |-> PlacementRequest(places, FALSE),
     response |-> EngineAnswer(judgement, places),
     results |-> QueryPlacementResult(EngineAnswer(judgement, places))]

\* one pass of the loop over the distances: the queries and the valid positions
Ring(judgement, ability, near, distance, options) ==
    LET positions == RingPositions(near, 0 - distance, distance, options.step)
        q1 == PlacementQuery(judgement, PlacesOf(ability, positions))
        valid1 == ValidPositions(positions, q1.results)
        q2 == PlacementQuery(judgement, AddonPlaces(valid1))
    IN  IF options.addon
        THEN [queries |-> << q1, q2 >>, valid |-> ValidPositions(valid1, q2.results)]
        ELSE [queries |-> << q1 >>, valid |-> valid1]

\* the loop over the distances, left at the first ring with a valid position
RECURSIVE Rings(_, _, _, _, _)
Rings(judgement, ability, near, distances, options) ==
    IF distances = <<>> THEN [queries |-> <<>>, valid |-> <<>>]
    ELSE LET ring == Ring(judgement, ability, near, Head(distances), options)
             rest == Rings(judgement, ability, near, Tail(distances), options)
         IN  IF ring.valid # <<>> THEN ring
             ELSE [queries |-> ring.queries \o rest.queries, valid |-> rest.valid]

\* any valid position, whatever the option
ChosenAtRandom(near, valid, random) == { valid[i] : i \in DOMAIN valid }

\* min_by over the squared distance to near: the first of the least
FirstClosest(near, valid) ==
    IF valid = <<>> THEN {}
    ELSE { valid[CHOOSE i \in DOMAIN valid :
                    \A j \in DOMAIN valid :
                       \/ DistanceSquared(near, valid[i]) < DistanceSquared(near, valid[j])
                       \/ /\ DistanceSquared(near, valid[i]) = DistanceSquared(near, valid[j])
                          /\ i <= j] }

\* the positions the return may give: any valid one with the random option,
\* the closest to near without it
Chosen(near, valid, random) ==
    IF random THEN { valid[i] : i \in DOMAIN valid } ELSE FirstClosest(near, valid)

\* the runs of find_placement: the queries it sends and what it can return
FindPlacementRuns(judgement, building, near, options) ==
    IF building \notin DOMAIN ProductionAbility
    THEN { [queries |-> <<>>, result |-> None] }
    ELSE LET ability == ProductionAbility[building]
             q0 == PlacementQuery(judgement,
                      IF options.addon
                      THEN << << ability, near, None >>,
                              << "TerranBuildSupplyDepot", AddonPosition(near), None >> >>
                      ELSE << << ability, near, None >> >>)
             rings == Rings(judgement, ability, near,
                            RingDistances(options.step, options), options)
         IN  IF \A i \in DOMAIN q0.results : q0.results[i] = "Success"
             THEN { [queries |-> << q0 >>, result |-> Some(near)] }
             ELSE IF rings.valid = <<>>
                  THEN { [queries |-> << q0 >> \o rings.queries, result |-> None] }
                  ELSE { [queries |-> << q0 >> \o rings.queries, result |-> Some(p)] :
                            p \in Chosen(near, rings.valid, options.random) }

\* a call of find_placement returns
FindPlacement(judgement, building, near, options) ==
    \E run \in FindPlacementRuns(judgement, building, near, options) :
       Returns([fn |-> "find_placement",
                args |-> [building |-> building, near |-> near, options |-> options],
                requests |-> [i \in DOMAIN run.queries |-> run.queries[i].request],
                response |-> [i \in DOMAIN run.queries |-> run.queries[i].response],
                result |-> run.result])

\* the options of the calls: the default, with the addon, at random, and a
\* search of every tile up to distance 2
PlacementOptionsOfCalls ==
    { PlacementOptionsDefault,
      [PlacementOptionsDefault EXCEPT !.addon = TRUE],
      [PlacementOptionsDefault EXCEPT !.random = TRUE],
      [max_distance |-> 3, step |-> 1, random |-> FALSE, addon |-> FALSE],
      [max_distance |-> 2, step |-> 2, random |-> FALSE, addon |-> TRUE] }

\* where the engine lets the building stand: nowhere, at the position, in
\* the corner and on the edge of the first ring, on two edges of it (a tie),
\* on the second ring and beyond the last, one tile away
BuildingJudgements(near) ==
    { {}, { near },
      { Offset(near, 0 - 2, 0 - 2), Offset(near, 0, 2), Offset(near, 4, 0) },
      { Offset(near, 2, 0), Offset(near, 0, 0 - 2) },
      { Offset(near, 4, 2), Offset(near, 16, 0) },
      { Offset(near, 16, 0) },
      { Offset(near, 1, 1), Offset(near, 2, 0) } }

\* where the engine lets the addon stand: everywhere, nowhere, and beside one
\* position of the first ring only
AddonJudgements(near) ==
    { { AddonPosition(p) : p \in UNION BuildingJudgements(near) }, {},
      { AddonPosition(Offset(near, 0 - 2, 0 - 2)) } }

\* the engine's judgement of the candidates: the <<ability, position>> pairs
\* for which it reports Success
Judgements(building, near) ==
    { { << ProductionAbility[building], p >> : p \in b }
         \cup { << "TerranBuildSupplyDepot", p >> : p \in a } :
        b \in BuildingJudgements(near), a \in AddonJudgements(near) }

NextQuery ==
    \/ \E snapshot \in QuerySnapshots : PlayFirstStep_Sync(snapshot)
    \/ \E snapshot \in QuerySnapshots : PlayStep_Sync(snapshot)
    \/ CallOwnedExpansions
    \/ CallEnemyExpansions
    \/ CallFreeExpansions
    \/ \E response \in PathingResponses(Len(GetExpansionCandidates(Bot))) :
          GetExpansion(response)
    \/ \E paths \in PathQueries :
          \E response \in PathingResponses(IF PathingPanics(paths) THEN 0
                                           ELSE Len(paths)) :
             QueryPathing(paths, response)
    \/ \E places \in PlacementQueries, check_resources \in BOOLEAN :
          \E response \in PlacementResponses(Len(places)) :
             QueryPlacement(places, check_resources, response)
    \/ \E building \in Buildings, pos \in {NaturalLocation, OwnStart} :
          \E response \in PlacementResponses(IF building \in DOMAIN ProductionAbility
                                             THEN 1 ELSE 0) :
             CanPlace(building, pos, response)

SpecQuery == InitWorld /\ [][NextQuery]_vars

\* the calls of find_placement by a bot program after the start of a game on
\* the open map
InitPlacement ==
    /\ InitWorldBase
    /\ game_info = MapOpen
    /\ ramp = RampDefault

NextPlacement ==
    \/ \E snapshot \in { << OwnCommandCenter >>, SceneNatural } :
          PlayFirstStep_Sync(snapshot)
    \/ \E building \in Buildings, options \in PlacementOptionsOfCalls :
          \E judgement \in (IF building \in DOMAIN ProductionAbility
                             THEN Judgements(building, NaturalLocation)
                             ELSE { {} }) :
             FindPlacement(judgement, building, NaturalLocation, options)

SpecPlacement == InitPlacement /\ [][NextPlacement]_vars

(***************************************************************************)
(* Ramp geometry (ramp.rs).  A tile is <<x, y>>; a position built from a   *)
(* tile is kept in doubled coordinates, so the tile's centre (x + 0.5,      *)
(* y + 0.5) is <<2x + 1, 2y + 1>>.                                           *)
(***************************************************************************)
U8Min == 0
U8Max == 255

Ramp(points, height, start) == [points |-> points, height |-> height, start_location |-> start]

\* one step of the for_each of upper(): a higher tile restarts the result
UpperStep(r, acc, p) ==
    LET h == r.height[p]
    IN  IF h > acc.bound THEN [bound |-> h, result |-> << p >>]
        ELSE IF h = acc.bound THEN [acc EXCEPT !.result = Append(@, p)]
        ELSE acc

\* one step of the for_each of lower(): a lower tile restarts the result
LowerStep(r, acc, p) ==
    LET h == r.height[p]
    IN  IF h < acc.bound THEN [bound |-> h, result |-> << p >>]
        ELSE IF h = acc.bound THEN [acc EXCEPT !.result = Append(@, p)]
        ELSE acc

RECURSIVE UpperFold(_, _, _)
UpperFold(r, i, acc) ==
    IF i > Len(r.points) THEN acc
    ELSE UpperFold(r, i + 1, UpperStep(r, acc, r.points[i]))

RECURSIVE LowerFold(_, _, _)
LowerFold(r, i, acc) ==
    IF i > Len(r.points) THEN acc
    ELSE LowerFold(r, i + 1, LowerStep(r, acc, r.points[i]))

Upper(r) == UpperFold(r, 1, [bound |-> U8Min, result |-> <<>>]).result

Lower(r) == LowerFold(r, 1, [bound |-> U8Max, result |-> <<>>]).result

RECURSIVE SumX(_, _)
SumX(ps, i) == IF i > Len(ps) THEN 0 ELSE ps[i][1] + SumX(ps, i + 1)

RECURSIVE SumY(_, _)
SumY(ps, i) == IF i > Len(ps) THEN 0 ELSE ps[i][2] + SumY(ps, i + 1)

\* the fold over the tiles and the usize division by their number
CenterOf(ps) ==
    IF ps = <<>> THEN None
    ELSE Some(<< SumX(ps, 1) \div Len(ps), SumY(ps, 1) \div Len(ps) >>)

TopCenter(r) == CenterOf(Upper(r))

BottomCenter(r) == CenterOf(Lower(r))

\* the key of the sort of upper2_for_ramp_wall, which sorts by Reverse(key)
WallKey(center, p) == center[1] * p[1] + center[2] * p[2]

\* the first two entries of the upper tiles sorted by descending key; the
\* sort is unstable, so tiles of equal key come in any order
FirstTwoSorted(upper, center) ==
    { << upper[i], upper[j] >> : << i, j >> \in
        { ij \in (DOMAIN upper) \X (DOMAIN upper) :
            /\ ij[1] # ij[2]
            /\ WallKey(center, upper[ij[1]]) >= WallKey(center, upper[ij[2]])
            /\ \A k \in DOMAIN upper \ { ij[1], ij[2] } :
                  WallKey(center, upper[ij[2]]) >= WallKey(center, upper[k]) } }

\* an upper2_for_ramp_wall that gives up on every tier of more than two tiles
Upper2OnlyOfTwo(r) ==
    LET upper == Upper(r)
    IN  IF Len(upper) = 2 THEN { Some(upper) } ELSE { None }

\* the results upper2_for_ramp_wall can return for this ramp
Upper2ForRampWall(r) ==
    LET upper == Upper(r)
    IN  IF Len(upper) > 5 THEN { None }
        ELSE IF Len(upper) > 2
             THEN IF BottomCenter(r) = None THEN { None }
                  ELSE { Some(pair) : pair \in FirstTwoSorted(upper, BottomCenter(r)[1]) }
        ELSE IF Len(upper) = 2 THEN { Some(upper) }
        ELSE { None }

TileCenter(p) == << 2 * p[1] + 1, 2 * p[2] + 1 >>
TileCorner(p) == << 2 * p[1], 2 * p[2] >>

\* squared radii of the circles, in doubled coordinates: 5 and 2.5 times four
BarracksRadius2 == 20
DepotRadius2 == 10

\* Point2::circle_intersection and the max_by over its two points: the
\* intersection of the circles about c1 and c2 that is farthest from a point
FarthestIntersection(c1, c2, radius2, from) ==
    [circles |-> << c1, c2 >>, radius2 |-> radius2, farthest_from |-> from]

\* Point2::circle_intersection: both intersections
Intersections(c1, c2, radius2) == [circles |-> << c1, c2 >>, radius2 |-> radius2]

\* wall is what upper2_for_ramp_wall returns in this call
BarracksInMiddle(r, wall) ==
    IF Len(Upper(r)) # 2 /\ Len(Upper(r)) # 5 THEN None
    ELSE IF wall # None
    THEN Some(FarthestIntersection(TileCenter(wall[1][1]), TileCenter(wall[1][2]),
                                   BarracksRadius2, TileCorner(Lower(r)[1])))
    ELSE None

DepotInMiddle(r, wall) ==
    IF Len(Upper(r)) # 2 /\ Len(Upper(r)) # 5 THEN None
    ELSE IF wall # None
    THEN Some(FarthestIntersection(TileCenter(wall[1][1]), TileCenter(wall[1][2]),
                                   DepotRadius2, TileCorner(Lower(r)[1])))
    ELSE None

\* center = (p1 + p2) / 2.0, in doubled coordinates
WallCenter(wall) ==
    << wall[1][1][1] + wall[1][2][1] + 1, wall[1][1][2] + wall[1][2][2] + 1 >>

CornerDepots(r, wall) ==
    IF wall # None
    THEN IF DepotInMiddle(r, wall) = None THEN None
         ELSE Some(Intersections(WallCenter(wall), DepotInMiddle(r, wall)[1], BarracksRadius2))
    ELSE None

\* a position computed from the positions of other wall functions
Derived(fn, parts) == [fn |-> fn, from |-> parts]

BarracksCorrectPlacement(r, wall) ==
    IF BarracksInMiddle(r, wall) = None THEN None
    ELSE Some(Derived("barracks_correct_placement",
                      << BarracksInMiddle(r, wall)[1], CornerDepots(r, wall) >>))

ProtossWallPylon(r, wall) ==
    IF DepotInMiddle(r, wall) = None \/ BarracksInMiddle(r, wall) = None THEN None
    ELSE Some(Derived("protoss_wall_pylon",
                      << DepotInMiddle(r, wall)[1], BarracksInMiddle(r, wall)[1] >>))

ProtossWallBuildings(r, wall) ==
    IF \/ DepotInMiddle(r, wall) = None
       \/ BarracksInMiddle(r, wall) = None
       \/ CornerDepots(r, wall) = None
    THEN None
    ELSE Some(Derived("protoss_wall_buildings",
                      << DepotInMiddle(r, wall)[1], BarracksInMiddle(r, wall)[1],
                         CornerDepots(r, wall)[1], r.start_location >>))

ProtossWallWarpin(r, wall) ==
    IF \/ DepotInMiddle(r, wall) = None
       \/ BarracksInMiddle(r, wall) = None
       \/ CornerDepots(r, wall) = None
    THEN None
    ELSE Some(Derived("protoss_wall_warpin",
                      << DepotInMiddle(r, wall)[1], BarracksInMiddle(r, wall)[1],
                         CornerDepots(r, wall)[1], r.start_location >>))

(***************************************************************************)
(* Ramps of a small map and the calls of the wall functions on them.        *)
(***************************************************************************)
MaxRampTiles == 8

\* the tiles of the map in rows of four, in the order in which a ramp lists them
RampTiles == [i \in 1..MaxRampTiles |-> << (i - 1) % 4, (i - 1) \div 4 >>]

TileSet == { RampTiles[i] : i \in DOMAIN RampTiles }

\* height maps: level ground, a cliff along y, a cliff along x, a slope
HeightMaps ==
    { [t \in TileSet |-> 1],
      [t \in TileSet |-> 1 + t[2]],
      [t \in TileSet |-> IF t[1] = 0 THEN 1 ELSE 2],
      [t \in TileSet |-> 1 + t[1] + t[2]] }

Ramps ==
    { Ramp(SelectSeq(RampTiles, LAMBDA t : t \in S), h, Origin) :
         S \in SUBSET TileSet, h \in HeightMaps }

InitRamp ==
    /\ InitWorldBase
    /\ game_info = [placement_grid |-> {}, start_locations |-> <<>>]
    /\ ramp \in Ramps

\* a function of the ramp returns; nothing but the record of the call changes
RampReturns(call) ==
    /\ queried' = call
    /\ UNCHANGED << sessionVars, viewVars, callbacks >>

CallUpper == RampReturns(Call("upper", <<>>, <<>>, Upper(ramp)))

CallLower == RampReturns(Call("lower", <<>>, <<>>, Lower(ramp)))

CallTopCenter == RampReturns(Call("top_center", <<>>, <<>>, TopCenter(ramp)))

CallBottomCenter == RampReturns(Call("bottom_center", <<>>, <<>>, BottomCenter(ramp)))

CallUpper2ForRampWall ==
    \E wall \in Upper2ForRampWall(ramp) :
       RampReturns(Call("upper2_for_ramp_wall", <<>>, wall, wall))

CallBarracksInMiddle ==
    \E wall \in Upper2ForRampWall(ramp) :
       RampReturns(Call("barracks_in_middle", <<>>, wall, BarracksInMiddle(ramp, wall)))

CallDepotInMiddle ==
    \E wall \in Upper2ForRampWall(ramp) :
       RampReturns(Call("depot_in_middle", <<>>, wall, DepotInMiddle(ramp, wall)))

CallCornerDepots ==
    \E wall \in Upper2ForRampWall(ramp) :
       RampReturns(Call("corner_depots", <<>>, wall, CornerDepots(ramp, wall)))

CallBarracksCorrectPlacement ==
    \E wall \in Upper2ForRampWall(ramp) :
       RampReturns(Call("barracks_correct_placement", <<>>, wall,
                        BarracksCorrectPlacement(ramp, wall)))

CallProtossWallPylon ==
    \E wall \in Upper2ForRampWall(ramp) :
       RampReturns(Call("protoss_wall_pylon", <<>>, wall, ProtossWallPylon(ramp, wall)))

CallProtossWallBuildings ==
    \E wall \in Upper2ForRampWall(ramp) :
       RampReturns(Call("protoss_wall_buildings", <<>>, wall,
                        ProtossWallBuildings(ramp, wall)))

CallProtossWallWarpin ==
    \E wall \in Upper2ForRampWall(ramp) :
       RampReturns(Call("protoss_wall_warpin", <<>>, wall, ProtossWallWarpin(ramp, wall)))

NextRamp ==
    \/ CallUpper
    \/ CallLower
    \/ CallTopCenter
    \/ CallBottomCenter
    \/ CallUpper2ForRampWall
    \/ CallBarracksInMiddle
    \/ CallDepotInMiddle
    \/ CallCornerDepots
    \/ CallBarracksCorrectPlacement
    \/ CallProtossWallPylon
    \/ CallProtossWallBuildings
    \/ CallProtossWallWarpin

SpecRamp == InitRamp /\ [][NextRamp]_vars

(***************************************************************************)
(* The steps of one tick over the world: play_first_step and play_step      *)
(* with the snapshot, the abilities request and the synchronizer, against   *)
(* an engine and a transport that do not fail.                              *)
(***************************************************************************)
TickSnapshots ==
    { << OwnCommandCenter >>,
      << OwnCommandCenter,
         Unit("t3", "Own", "Marine", <<45, 45>>, Some(2), TRUE, FALSE, <<>>) >>,
      << EnemyCommandCenter,
         Unit("t2", "Own", "Barracks", <<50, 41>>, None, TRUE, FALSE,
              << "BarracksTrainMarine" >>) >> }

\* the snapshot an observation response carried
ObservedSnapshot(e) == e.v[3]

\* the tags of the units of a list, in its order
RECURSIVE TagsIn(_)
TagsIn(list) == IF list = <<>> THEN <<>> ELSE << Head(list).tag >> \o TagsIn(Tail(list))

\* an abilities request built from the own units of the bot's views
AbilitiesRequestFromViews(b, snapshot) == TagsIn(b.units.my.all)

\* play_step: the abilities request, one entry per own unit of the snapshot
\* just observed
AbilitiesRequest(b, snapshot) == TagsIn(SelectSeq(snapshot, IsMine))

\* what an observation carries besides its units: the researched upgrades and
\* the creep of its raw part, the supply of its common part.  Supply used can
\* exceed the cap (a supply structure was lost)
ObservationData ==
    { [raw |-> [upgrades |-> {}, creep |-> {}],
       common |-> [food_cap |-> ToU32(15), food_used |-> ToU32(12)]],
      [raw |-> [upgrades |-> { "Stimpack" }, creep |-> { <<30, 30>> }],
       common |-> [food_cap |-> ToU32(15), food_used |-> ToU32(16)]],
      [raw |-> [upgrades |-> { "Stimpack" }, creep |-> {}],
       common |-> [food_cap |-> ToU32(0), food_used |-> U32Max]] }

\* the context built from the stored observation
DataFrom(r) == [upgrades |-> r.upgrades, creep |-> r.creep]

\* GameState::from_proto_data: every unit of the state is given the context
FromProtoData(data, d) ==
    [raw |-> [upgrades |-> d.raw.upgrades, creep |-> d.raw.creep, data |-> data],
     common |-> d.common]

\* play_first_step up to the call of on_start
Tick_FirstObservation(snapshot, d) ==
    /\ pc = "first_obs"
    /\ raw' = FromProtoData(DataFrom(raw), d).raw
    /\ data_for_unit' = DataFrom(d.raw)
    /\ LET b == PrepareStart(Bot, snapshot, game_info)
       IN  Synchronized(b, snapshot)
    /\ LET st == APISend([Net EXCEPT !.log = TickBegins("play_first_step")], "bot",
                         "observation", TRUE, << Status(FALSE), <<>>, snapshot >>)
       IN  IF PrepareStartPanic(UpdateUnits(Bot, snapshot), game_info) = ""
           THEN /\ Commit(Logged(st, Ev("call", "-", "on_start", TRUE, 0)))
                /\ pc' = "on_start"
                /\ opsLeft' = MaxOps
                /\ callbacks' = Append(callbacks, << "on_start", 0 >>)
                /\ UNCHANGED outcome
           ELSE /\ Commit(st)
                /\ Exit("panic", "prepare_start")
                /\ UNCHANGED << opsLeft, callbacks >>
    /\ issued' = {}
    /\ queried' = <<>>
    /\ UNCHANGED << mode, realtimeOpt, botOrders, api, process, joined, playerId,
                    gameStep, iteration, engineEnded, commands, actions,
                    debugCmds, dropped, game_info, observed, ramp, supply_cap,
                    supply_used, supply_left, observed_data >>

\* play_step: the observation request; the snapshot is held in a local
Tick_Observation(snapshot, d) ==
    /\ pc = "loop"
    /\ iteration < MaxTicks
    /\ Commit(APISend([Net EXCEPT !.log = TickBegins("play_step")], "bot",
                      "observation", TRUE, << Status(FALSE), <<>>, snapshot >>))
    /\ observed' = snapshot
    /\ observed_data' = FromProtoData(data_for_unit, d)
    /\ pc' = "abilities"
    /\ issued' = {}
    /\ UNCHANGED << mode, realtimeOpt, botOrders, outcome, api, process, joined,
                    playerId, gameStep, iteration, engineEnded, commands, actions,
                    debugCmds, opsLeft, dropped >>
    /\ UNCHANGED << state, units, techlab_tags, reactor_tags, max_cooldowns, orders,
                    current_units, game_info, start_location, enemy_start,
                    start_center, enemy_start_center, expansions, reported, ramp,
                    queried, callbacks, data_for_unit, raw, supply_cap,
                    supply_used, supply_left >>

\* play_step: the available-abilities query
Tick_QueryAbilities ==
    /\ pc = "abilities"
    /\ Commit(APISend(Net, "bot", "query_abilities", TRUE, AbilitiesRequest(Bot, observed)))
    /\ pc' = "prepare"
    /\ UNCHANGED << mode, realtimeOpt, botOrders, outcome, api, process, joined,
                    playerId, gameStep, iteration, engineEnded, commands, actions,
                    debugCmds, issued, opsLeft, dropped >>
    /\ UNCHANGED worldVars

\* play_step: bot.state = state; bot.prepare_step(); the call of on_step
Tick_Prepare(overflow_checks) ==
    /\ pc = "prepare"
    /\ raw' = observed_data.raw
    /\ supply_cap' = observed_data.common.food_cap
    /\ supply_used' = observed_data.common.food_used
    /\ observed' = <<>>
    /\ observed_data' = [raw |-> RawDefault, common |-> CommonDefault]
    /\ queried' = <<>>
    /\ IF SubPanics(overflow_checks, observed_data.common.food_cap,
                    observed_data.common.food_used)
       THEN /\ Synchronized([UpdateUnits(Bot, observed)
                                EXCEPT !.current_units = current_units,
                                       !.orders = orders], observed)
            /\ Exit("panic", "prepare_step")
            /\ UNCHANGED << supply_left, data_for_unit, log, callbacks, opsLeft >>
       ELSE /\ Synchronized(PrepareStep(Bot, observed), observed)
            /\ supply_left' = WrappingSub(observed_data.common.food_cap,
                                          observed_data.common.food_used)
            /\ data_for_unit' = DataFrom(observed_data.raw)
            /\ log' = Append(log, Ev("call", "-", "on_step", TRUE, iteration))
            /\ callbacks' = Append(callbacks, << "on_step", iteration >>)
            /\ pc' = "on_step"
            /\ opsLeft' = MaxOps
            /\ UNCHANGED outcome
    /\ UNCHANGED << mode, realtimeOpt, botOrders, api, process, pending,
                    overlap, joined, playerId, gameStep, iteration, engineEnded,
                    commands, actions, debugCmds, issued, dropped, game_info,
                    ramp >>

InitTick ==
    /\ InitWorldBase
    /\ game_info = MapOpen
    /\ ramp = RampDefault

NextTick ==
    \/ \E snapshot \in TickSnapshots, d \in ObservationData :
          Tick_FirstObservation(snapshot, d)
    \/ OnStartReturn(TRUE)
    \/ \E o \in IterationOrders(DOMAIN commands) : PlayFirstStep_FlushActions(TRUE, o)
    \/ PlayFirstStep_Step(TRUE)
    \/ \E snapshot \in TickSnapshots, d \in ObservationData :
          Tick_Observation(snapshot, d)
    \/ Tick_QueryAbilities
    \/ \E overflow_checks \in BOOLEAN : Tick_Prepare(overflow_checks)
    \/ \E text \in ChatTexts : Chat(text)
    \/ DebugCommand
    \/ OnStepReturn(TRUE)
    \/ \E o \in IterationOrders(DOMAIN commands) : PlayStep_FlushActions(TRUE, o)
    \/ PlayStep_FlushDebug(TRUE)
    \/ PlayStep_Step(TRUE)

SpecTick == InitTick /\ [][NextTick]_vars

(***************************************************************************)
(* Properties                                                               *)
(***************************************************************************)
TeardownKinds == {"leave_game", "quit", "kill"}

\* the log is that of a play_step tick
InStepTick == log # <<>> /\ log[1].t = "fn" /\ log[1].k = "play_step"

\* the log is that of a play_step tick whose observation reported status ended
EndedTick ==
    /\ InStepTick /\ Len(log) >= 2
    /\ log[2].k = "observation" /\ log[2].ok
    /\ ObservedStatus(log[2]) = "ended"

\* C1: in a play_step tick whose observation has status ended, on_end is
\* invoked exactly once, with the player_result entry at zero-based index
\* player_id - 1, and the loop stops: the tick holds no abilities query, no
\* on_step, no action flush, no debug flush and no step-advance; and the loop
\* ends normally only this way.
C1_EndedTickCallsOnEndAndStops ==
    /\ EndedTick =>
          /\ pc \in {"on_end", "finished", "exited"}
          /\ pc = "on_end" => Len(log) = 2
          /\ pc # "on_end" =>
                /\ Len(log) >= 4
                /\ log[3] = Ev("call", "-", "on_end", TRUE,
                               ObservedResults(log[2])[playerId])
                /\ log[4].t = "ret" /\ log[4].k = "on_end"
                /\ log[4].v = log[3].v
                /\ log[4].ok => pc = "finished" \/ outcome[1] # "running"
                /\ ~log[4].ok => pc = "exited" /\ outcome = <<"err", "callback">>
                /\ \A i \in 5..Len(log) : log[i].k = "save_replay"
    /\ pc = "finished" => EndedTick /\ Len(log) = 4 /\ log[4].ok
    /\ outcome[1] = "ok" /\ dropped = {} => EndedTick /\ log[4].ok

\* C1 witness: the loop has ended normally after on_end for player 2
C1_Witness ==
    /\ pc = "finished" /\ EndedTick /\ playerId = 2
    /\ log[3].k = "on_end" /\ iteration = 1

\* an event of the log is a response that carries an engine error
ErrorResponse(e, kind) ==
    /\ e.k = kind /\ e.t \in {"req", "recv"}
    /\ e.ok /\ (IF kind = "join_game" THEN e.v.error ELSE e.v) # ""

\* the error a response carries
ErrorOf(e) == IF e.k = "join_game" THEN e.v.error ELSE e.v

\* once a destructor has run, the log holds teardown events only
TeardownOnly ==
    dropped # {} => \A i \in DOMAIN log : log[i].k \in TeardownKinds

\* C2: when the create-game response carries an error, the run function is
\* left at once, before on_start: no join-game, observation or step-advance
\* request is sent afterwards and none of on_start, on_step, on_end is invoked.
C2_CreateErrorStopsBeforeJoin ==
    /\ \A i \in DOMAIN log :
          ErrorResponse(log[i], "create_game") =>
             /\ i = Len(log)
             /\ pc = "exited"
             /\ outcome[1] \notin {"running", "ok"}
             /\ outcome[2] = log[i].v
    /\ outcome[2] \in CreateErrors =>
          /\ pc = "exited"
          /\ TeardownOnly
          /\ \A i \in DOMAIN log :
                /\ log[i].k \notin {"join_game", "observation", "step"}
                /\ log[i].t \notin {"call", "ret", "fn"}

\* C2 witness: vs-human, create-game was rejected and both controllers are
\* torn down
C2_Witness ==
    /\ mode = "human" /\ outcome[2] \in CreateErrors
    /\ dropped = Controllers
    /\ ~joined["bot"] /\ ~joined["host"]

\* C3: an engine error in the create-game or join-game response comes back to
\* the caller as an error result carrying the engine's error code and details.
C3_ProtocolErrorIsReturnedAsError ==
    \A i \in DOMAIN log :
       ErrorResponse(log[i], "create_game") \/ ErrorResponse(log[i], "join_game")
          => outcome = <<"err", ErrorOf(log[i])>>

\* requests the tick loop itself sends
TickRequestKinds == {"observation", "query_abilities", "action", "debug", "step"}
CallbackNames == {"on_start", "on_step", "on_end"}

\* a request of the tick loop failed in the transport, or a callback failed
TickFailure(e) ==
    /\ ~e.ok
    /\ \/ e.t = "req" /\ e.k \in TickRequestKinds
       \/ e.t = "ret" /\ e.k \in CallbackNames

\* C4: when a request of the tick loop fails in the transport, or on_start,
\* on_step or on_end fails, the run function returns that error at once:
\* nothing follows the failure in the tick (no callback, no observation, query,
\* action, debug or step-advance request), so the orders of a failing on_step
\* are not flushed.
C4_TickFailureReturnsAtOnce ==
    /\ \A i \in DOMAIN log :
          TickFailure(log[i]) =>
             /\ i = Len(log)
             /\ pc = "exited"
             /\ outcome = <<"err", IF log[i].t = "ret" THEN "callback" ELSE "transport">>
    /\ pc = "exited" => TeardownOnly

\* C4 witness: on_step failed after issuing an order, which stays unflushed
C4_Witness ==
    /\ pc = "exited" /\ dropped = {}
    /\ log[Len(log)] = Ev("ret", "-", "on_step", FALSE, 1)
    /\ commands # EmptyMap

\* the kinds of the events of a log, in order
KindsOf(l) == [i \in 1..Len(l) |-> l[i].k]

\* the controller whose destructor ran last
LastDropped == IF "bot" \in dropped THEN "bot" ELSE "host"

\* what a destructor of controller c attempts
DropAttempts(c) ==
    (IF api[c] THEN <<"leave_game", "quit">> ELSE <<>>)
       \o (IF process[c] THEN <<"kill">> ELSE <<>>)

\* C5 (state part): after the destructor of a controller, leave-game and then
\* quit were attempted on its connection if it has one, and then its process
\* was killed if it launched one, whichever of these steps failed.
C5_DropAttemptsAll ==
    dropped # {} =>
       /\ KindsOf(log) = DropAttempts(LastDropped)
       /\ \A i \in DOMAIN log : log[i].c = LastDropped

\* C5: every destructor attempts leave-game, quit and kill as far as the
\* controller holds a connection and a process, a failed step skips none of the
\* others, and the destructor leaves the outcome of the run function as it was.
C5_TeardownIsBestEffort ==
    /\ []C5_DropAttemptsAll
    /\ [][dropped' # dropped => outcome' = outcome /\ pc' = pc]_vars

\* C5 witness: the Bot's destructor has run with leave-game, quit and kill all
\* failing
C5_Witness ==
    /\ "bot" \in dropped /\ Len(log) = 3
    /\ ~log[1].ok /\ ~log[2].ok /\ ~log[3].ok
    /\ KindsOf(log) = <<"leave_game", "quit", "kill">>

\* C6: on each connection requests and responses alternate: no request is
\* written on a connection while the response to an earlier request on it has
\* not been read.
C6_RequestsAndResponsesAlternate ==
    /\ overlap = {}
    /\ \A c \in Controllers : Len(pending[c]) <= 1

LoopRequestKinds ==
    {"game_info", "data", "observation", "query_abilities", "query", "action",
     "debug", "step"}

\* C7: in vs-human mode no game-info, observation, query, action or
\* step-advance request is sent on either connection before a successful join
\* response was read on both; after a join response with an error the tick
\* loop never starts.
C7_BothJoinedBeforeLoop ==
    mode = "human" =>
       /\ \A i \in DOMAIN log :
             log[i].t \in {"req", "send", "fn", "call"}
                /\ log[i].k \in LoopRequestKinds \cup CallbackNames
                                \cup {"play_first_step", "play_step"}
             => joined["host"] /\ joined["bot"]
       /\ \A i \in DOMAIN log :
             ErrorResponse(log[i], "join_game") =>
                i = Len(log) /\ pc = "exited" /\ outcome = <<"err", log[i].v.error>>
       /\ outcome[2] \in JoinErrors => pc = "exited"

\* C7 witness: vs-human, both joined, the second on_step is running
C7_Witness ==
    /\ mode = "human" /\ pc = "on_step" /\ iteration = 1
    /\ joined["host"] /\ joined["bot"]

\* a tick has run to its end and the loop is about to request an observation
TickCompleted == pc = "loop" /\ log # <<>>

\* C8: in vs-human lockstep mode every tick sends a step-advance on the host
\* connection and on the bot connection.
C8_BothConnectionsStep ==
    mode = "human" /\ ~Realtime /\ TickCompleted =>
       /\ \E i \in DOMAIN log : log[i].k = "step" /\ log[i].c = "host"
       /\ \E i \in DOMAIN log : log[i].k = "step" /\ log[i].c = "bot"

\* C9: in lockstep every completed tick (the on_start tick and every on_step
\* tick) ends with its one step-advance request, whose count is game_step,
\* after the action and debug flushes of the tick; in realtime no step-advance
\* request is ever sent; a ladder game runs lockstep.
C9_OneStepAdvancePerLockstepTick ==
    /\ Realtime => \A i \in DOMAIN log : log[i].k # "step"
    /\ ~Realtime /\ TickCompleted =>
          /\ log[Len(log)] = Ev("req", "bot", "step", TRUE, gameStep)
          /\ \A i \in 1..(Len(log) - 1) : log[i].k # "step"
    /\ mode = "ladder" /\ TickCompleted => log[Len(log)].k = "step"

\* C9 witness: a lockstep on_step tick with an action flush and a debug flush
\* ended with a step-advance of count 2
C9_Witness ==
    /\ ~Realtime /\ TickCompleted /\ InStepTick /\ gameStep = 2
    /\ \E i, j \in DOMAIN log :
          i < j /\ log[i].k = "action" /\ log[j].k = "debug" /\ j < Len(log)

\* the entries of an action request that are unit commands with this key
CommandsWithKey(request, key) ==
    { i \in DOMAIN request :
         request[i].kind = "UnitCommand" /\ request[i].key = key }

\* the units that issued this key since the tick began
IssuersOf(key) == { tag \in Tags : <<tag, key>> \in issued }

TagsOf(action) == { action.tags[j] : j \in DOMAIN action.tags }

\* C10: the action request flushed in a tick holds exactly one unit-command
\* action for every key (ability, target, queue-flag) issued in the tick, and
\* that action carries the tags of exactly the units that issued the key.
C10_OneBatchedActionPerKey ==
    \A i \in DOMAIN log :
       log[i].k = "action" =>
          \A key \in Keys :
             /\ Cardinality(CommandsWithKey(log[i].v, key))
                   = IF IssuersOf(key) = {} THEN 0 ELSE 1
             /\ \A n \in CommandsWithKey(log[i].v, key) :
                   TagsOf(log[i].v[n]) = IssuersOf(key)

\* C10 witness: two units issued the same key and one action with both tags
\* was flushed
C10_Witness ==
    \E i \in DOMAIN log :
       /\ log[i].k = "action" /\ log[i].ok
       /\ Len(log[i].v) = 1
       /\ TagsOf(log[i].v[1]) = Tags


\* Bot.actions and Commander.commands hold nothing
BatchEmpty == commands = EmptyMap /\ actions = <<>>

\* the action requests of the current tick
ActionRequests == { i \in DOMAIN log : log[i].k = "action" }

\* the tick is past its action flush, whether the request was sent or failed
Flushed ==
    \/ pc \in {"first_step", "flush_debug", "step"}
    \/ TickCompleted
    \/ pc = "exited" /\ log # <<>> /\ log[Len(log)].k \in {"action", "debug", "step"}

RECURSIVE ItemsOf(_)
\* the orders and chat messages an action request carries
ItemsOf(request) ==
    IF request = <<>> THEN 0
    ELSE (IF Head(request).kind = "Chat" THEN 1 ELSE Len(Head(request).tags))
            + ItemsOf(Tail(request))

\* C11: after every flush the command batch and the pending action list are
\* empty, also when the send of the action request failed; both are empty at
\* entry to every callback; a tick sends at most one action request, and it
\* carries only orders and chat messages issued in that tick's callback.
C11_BatchClearedByEveryFlush ==
    /\ Flushed => BatchEmpty
    /\ InCallback /\ opsLeft = MaxOps => BatchEmpty
    /\ Cardinality(ActionRequests) <= 1
    /\ \A i \in ActionRequests :
          /\ ItemsOf(log[i].v) <= MaxOps - opsLeft
          /\ \A n \in DOMAIN log[i].v :
                log[i].v[n].kind = "UnitCommand" =>
                   \A tag \in TagsOf(log[i].v[n]) : <<tag, log[i].v[n].key>> \in issued

\* C11 witness: in a play_step tick the send of a non-empty action request
\* failed and the batch is empty
C11_Witness ==
    /\ InStepTick /\ pc = "exited"
    /\ log[Len(log)].k = "action" /\ ~log[Len(log)].ok
    /\ ItemsOf(log[Len(log)].v) = MaxOps
    /\ BatchEmpty


(***************************************************************************)
(* Properties of the world state synchronizer and of expansion detection   *)
(* (under SpecWorld).                                                       *)
(***************************************************************************)
\* C12: classifying the same raw snapshot a second time yields exactly the
\* categorized collections (same members, same order), the addon-tag lists
\* and the max-cooldown table that classifying it once yields (the bot
\* holds the outcome of classifying its snapshot once).
C12_UpdateUnitsIsIdempotent ==
    LET again == UpdateUnits(Bot, state)
    IN  /\ again.units = units
        /\ again.techlab_tags = techlab_tags
        /\ again.reactor_tags = reactor_tags
        /\ again.max_cooldowns = max_cooldowns

\* C12 witness: a synchronized snapshot of two own units that report
\* cooldowns, classified again with the same outcome
C12_Witness ==
    /\ iteration >= 1
    /\ Len(units.my.all) = 2 /\ Len(units.my.units) = 2
    /\ DOMAIN max_cooldowns # {}
    /\ UpdateUnits(Bot, state).units = units

Members(group) == { group[i] : i \in DOMAIN group }

\* every categorized collection of Bot.units
Collections ==
    { units.my[f] : f \in DOMAIN units.my } \cup { units.enemy[f] : f \in DOMAIN units.enemy }
        \cup { units[f] : f \in DOMAIN units \ {"my", "enemy"} }

\* the own units of the current snapshot
OwnInSnapshot == { u \in Members(state) : IsMine(u) }

\* the abilities the current snapshot's own units give rise to in Bot.orders
AbilitiesInSnapshot ==
    UNION { Members(u.orders) : u \in OwnInSnapshot }
        \cup { ProductionAbility[u.type_id] :
                  u \in { v \in OwnInSnapshot : v.type_id \in DOMAIN ProductionAbility } }

\* C13: after every tick's synchronization every categorized collection, both
\* addon-tag lists and the orders / current_units maps hold only entries
\* derived from that tick's snapshot (so a unit of an earlier snapshot that is
\* absent from this one is in none of them), no unit twice in a collection.
C13_ViewsHoldOnlyTheCurrentSnapshot ==
    /\ \A group \in Collections :
          /\ Members(group) \subseteq Members(state)
          /\ Cardinality(Members(group)) = Len(group)
    /\ Members(techlab_tags)
          \subseteq { u.tag : u \in { v \in OwnInSnapshot : v.type_id \in TechLabTypes } }
    /\ Members(reactor_tags)
          \subseteq { u.tag : u \in { v \in OwnInSnapshot : v.type_id \in ReactorTypes } }
    /\ DOMAIN current_units \subseteq { u.type_id : u \in OwnInSnapshot }
    /\ DOMAIN orders \subseteq AbilitiesInSnapshot

\* C13 witness: an own unit of an earlier snapshot is absent from the
\* current one, which holds another own unit with an order
C13_Witness ==
    /\ iteration >= 2
    /\ \E r \in reported : \A u \in Members(state) : u.tag # r[1]
    /\ units.my.all # <<>>
    /\ DOMAIN orders # {}

\* the cooldowns own units of a type have reported in the snapshots so far
ReportedFor(type_id) == { r[3] : r \in { q \in reported : q[2] = type_id } }

Greatest(S) == CHOOSE s \in S : \A t \in S : t <= s

\* max_cooldowns holds, for every unit type own units have reported a weapon
\* cooldown for, the greatest cooldown reported so far, and nothing else
HighWaterMarks ==
    /\ DOMAIN max_cooldowns = { r[2] : r \in reported }
    /\ \A type_id \in DOMAIN max_cooldowns :
          max_cooldowns[type_id] = Greatest(ReportedFor(type_id))

\* C14: across any sequence of ticks the stored max_cooldown of a unit type
\* never decreases and is never removed once present; after each tick it is
\* the greatest weapon cooldown reported for any own unit of that type in any
\* snapshot processed so far; enemy units never contribute.
C14_MaxCooldownIsAHighWaterMark ==
    /\ []HighWaterMarks
    /\ [][\A type_id \in DOMAIN max_cooldowns :
             /\ type_id \in DOMAIN max_cooldowns'
             /\ max_cooldowns'[type_id] >= max_cooldowns[type_id]]_vars

\* C14 witness: the stored value of a type is above the cooldown of an own
\* unit of the type in the current snapshot and below that of an enemy unit
\* of the type in it
C14_Witness ==
    \E type_id \in DOMAIN max_cooldowns :
       /\ \E u \in OwnInSnapshot :
             /\ u.type_id = type_id /\ u.weapon_cooldown # None
             /\ u.weapon_cooldown[1] < max_cooldowns[type_id]
       /\ \E u \in Members(state) :
             /\ u.alliance = "Enemy" /\ u.type_id = type_id
             /\ u.weapon_cooldown[1] > max_cooldowns[type_id]

\* map[key], zero for an absent key
CountOf(map, key) == IF key \in DOMAIN map THEN map[key] ELSE 0

\* the unit types with own units in the current snapshot or with a known
\* production ability
CountedTypes == { u.type_id : u \in OwnInSnapshot } \cup DOMAIN ProductionAbility

\* the own units of a type in the current snapshot: all of them, and those
\* that are ready and no placeholder
OwnOfType(type_id) == { u \in OwnInSnapshot : u.type_id = type_id }
ReadyOfType(type_id) ==
    { u \in OwnOfType(type_id) : IsReady(u) /\ ~IsPlaceholder(u) }

\* the active orders for an ability among the own units of the snapshot
ActiveOrders(ability) ==
    { p \in (DOMAIN state) \X (1..MaxOrdersOfAUnit) :
         /\ IsMine(state[p[1]])
         /\ p[2] \in DOMAIN state[p[1]].orders
         /\ state[p[1]].orders[p[2]] = ability }

\* prepare_step has synchronized the current snapshot
StepSynchronized == pc = "loop" /\ iteration >= 1

\* C15 as claimed: after a tick's synchronization, for every unit type T with
\* a production ability, current_units[T] + orders[production_ability(T)] is
\* the number of own units of type T in the snapshot (ready or in progress).
C15_CountersMatchSnapshotCount ==
    StepSynchronized =>
       \A type_id \in DOMAIN ProductionAbility :
          CountOf(current_units, type_id)
                + CountOf(orders, ProductionAbility[type_id])
             = Cardinality(OwnOfType(type_id))

\* C15 amended: after a synchronization by prepare_step, current_units[T] is
\* the number of own units of type T in the snapshot that are ready and no
\* placeholder; orders[a] is the number of own units in the snapshot that are
\* not ready or are placeholders and whose type is produced by a, plus, when
\* a is not a constructing ability, the number of active orders for a among
\* the own units.  So current_units[T] + orders[production_ability(T)]
\* exceeds the number of own units of type T by the active orders for a
\* non-constructing production ability.
C15_CountersCountUnitsAndActiveOrders ==
    StepSynchronized =>
       /\ \A type_id \in CountedTypes :
             CountOf(current_units, type_id) = Cardinality(ReadyOfType(type_id))
       /\ \A ability \in AbilitiesInSnapshot \cup DOMAIN orders :
             CountOf(orders, ability)
                = Cardinality({ u \in OwnInSnapshot :
                                   /\ ~(IsReady(u) /\ ~IsPlaceholder(u))
                                   /\ u.type_id \in DOMAIN ProductionAbility
                                   /\ ProductionAbility[u.type_id] = ability })
                  + (IF IsConstructing(ability) THEN 0
                     ELSE Cardinality(ActiveOrders(ability)))
       /\ \A type_id \in DOMAIN ProductionAbility :
             CountOf(current_units, type_id)
                   + CountOf(orders, ProductionAbility[type_id])
                = Cardinality(OwnOfType(type_id))
                  + (IF IsConstructing(ProductionAbility[type_id]) THEN 0
                     ELSE Cardinality(ActiveOrders(ProductionAbility[type_id])))

\* C15 witness: a synchronized snapshot with an own unit in progress and an
\* active order that produces a unit which is not in the snapshot
C15_Witness ==
    /\ StepSynchronized
    /\ \E u \in OwnInSnapshot : ~IsReady(u) /\ u.type_id \in DOMAIN ProductionAbility
    /\ \E type_id \in DOMAIN ProductionAbility :
          /\ OwnOfType(type_id) = {}
          /\ CountOf(orders, ProductionAbility[type_id]) = 1


\* The state just after prepare_start: the views are those of the first
\* snapshot, from which the expansions were computed.
StartSynchronized == pc = "loop" /\ iteration = 0

\* the location of an entry of the expansions list
LocationOf(expansion) == expansion[1]

\* the location keeps the clearance of the search from every resource of the group
KeepsClear(location, resources) ==
    \A i \in DOMAIN resources :
       DistanceSquared(location, resources[i].position)
          > 4 * (IF resources[i].type_id \in VespeneGeyserTypes
                 THEN GeyserClearance ELSE MineralClearance)

\* C16 as stated: every entry of the expansions list, whichever branch produced
\* it, is located on a buildable tile of the placement grid that is not the
\* tile of a resource of its group.
C16_EveryExpansionIsBuildable ==
    StartSynchronized =>
       LET groups == ResourceGroups(Bot)
       IN  \A g \in DOMAIN expansions :
              /\ Tile(LocationOf(expansions[g])) \notin game_info.placement_grid
              /\ Tile(LocationOf(expansions[g])) \notin TilesOf(groups[g])

\* C16 (amended): an entry produced by the search branch is located on a
\* buildable tile at more than the clearance from every resource of its
\* group, hence on the tile of none of them; an entry of a group at a start
\* location is that start location as it was reported, whatever the grid.
C16_SearchedExpansionIsBuildable ==
    StartSynchronized =>
       LET groups == ResourceGroups(Bot)
       IN  /\ DOMAIN expansions = DOMAIN groups
           /\ \A g \in DOMAIN expansions :
                 LET location == LocationOf(expansions[g])
                     branch == Branch(Bot, game_info, groups[g])
                 IN  /\ branch = "start" => location = start_location
                     /\ branch = "enemy_start" => location = enemy_start
                     /\ branch \notin {"start", "enemy_start"} =>
                           /\ Tile(location) \notin game_info.placement_grid
                           /\ KeepsClear(location, groups[g])
                           /\ Tile(location) \notin TilesOf(groups[g])

\* a start on a map whose start locations cannot be built on: one entry from
\* the search, one at the own start location on a blocked tile
C16_Witness ==
    /\ StartSynchronized
    /\ \E g \in DOMAIN expansions :
          /\ LocationOf(expansions[g]) = start_location
          /\ Tile(start_location) \in game_info.placement_grid
    /\ \E g \in DOMAIN expansions :
          /\ Branch(Bot, game_info, ResourceGroups(Bot)[g]) = "search"
          /\ Tile(LocationOf(expansions[g])) \notin game_info.placement_grid

\* the inputs of the expansion computation a snapshot carries: its resources
\* in their order and the position of the first own townhall
ResourcesIn(snapshot) ==
    SelectSeq(snapshot, LAMBDA u : /\ u.alliance = "Neutral"
                                   /\ u.type_id \in MineralFieldTypes
                                                       \cup VespeneGeyserTypes)
OwnTownhallsIn(snapshot) ==
    SelectSeq(snapshot, LAMBDA u : u.alliance = "Own" /\ u.type_id \in TownhallTypes)
SameInputs(s1, s2) ==
    /\ ResourcesIn(s1) = ResourcesIn(s2)
    /\ OwnTownhallsIn(s1) # <<>>
    /\ OwnTownhallsIn(s2) # <<>>
    /\ OwnTownhallsIn(s1)[1].position = OwnTownhallsIn(s2)[1].position

\* C17: the expansion computation is deterministic.  Running prepare_start
\* again on the snapshot it ran on, or on any snapshot with the same resources
\* in the same order and the same start locations, on the same placement grid,
\* gives the stored expansions list in the same order; the list has one entry
\* per resource group, and one group of eight mineral fields gives one entry.
C17_ExpansionsAreDeterministic ==
    StartSynchronized =>
       /\ PrepareStart(Bot, state, game_info).expansions = expansions
       /\ \A snapshot \in Scenes :
             SameInputs(snapshot, state) =>
                PrepareStart(Bot, snapshot, game_info).expansions = expansions
       /\ Len(expansions) = Len(ResourceGroups(Bot))
       /\ (Len(ResourcesIn(state)) = 8 /\ Len(ResourceGroups(Bot)) = 1)
             => Len(expansions) = 1

\* the start on the single group of eight mineral fields: one expansion; and a
\* start on a snapshot that another snapshot equals in its inputs
C17_Witness ==
    /\ StartSynchronized
    /\ \/ /\ Len(ResourcesIn(state)) = 8
          /\ Len(expansions) = 1
          /\ Branch(Bot, game_info, ResourceGroups(Bot)[1]) = "search"
       \/ /\ Len(expansions) = 3
          /\ \E snapshot \in Scenes : snapshot # state /\ SameInputs(snapshot, state)

(***************************************************************************)
(* Properties of the query specification.                                   *)
(***************************************************************************)
\* some townhall of the snapshot, of the given alliance, is within the radius
\* of the location
TownhallNear(alliance, location) ==
    \E i \in DOMAIN state :
       /\ state[i].alliance = alliance
       /\ state[i].type_id \in TownhallTypes
       /\ DistanceSquared(state[i].position, location)
             < 4 * ExpansionRadius * ExpansionRadius

IsFree(location) == ~TownhallNear("Own", location) /\ ~TownhallNear("Enemy", location)

Returned(fn) == queried # <<>> /\ queried.fn = fn /\ pc = "loop"

\* C18: get_expansion issues exactly one batched pathing query and returns a
\* free expansion (no own and no enemy townhall within 15 of its location)
\* that is reachable and has the least reported path distance among all free
\* reachable expansions; it returns none when there is no such expansion.
C18_GetExpansionReturnsNearestFree ==
    Returned("get_expansion") =>
       /\ Len(queried.requests) = 1
       /\ LET request == queried.requests[1]
              distance == [i \in DOMAIN request |-> queried.response[i].distance]
              free_reachable ==
                  { i \in DOMAIN request :
                       IsFree(request[i].end_pos) /\ distance[i] # None }
          IN  /\ \A g \in DOMAIN expansions :
                    IsFree(LocationOf(expansions[g])) =>
                       \E i \in DOMAIN request :
                          request[i].end_pos = LocationOf(expansions[g])
              /\ IF free_reachable = {}
                 THEN queried.result = None
                 ELSE \E i \in free_reachable :
                         /\ queried.result # None
                         /\ LocationOf(queried.result[1]) = request[i].end_pos
                         /\ \A j \in free_reachable : distance[i][1] <= distance[j][1]

\* the locations of a list of expansions
LocationsOf(list) == { LocationOf(list[i]) : i \in DOMAIN list }

\* the entries of the static list whose location satisfies the test, in the
\* order of the list
Selected(Test(_)) == SelectSeq(expansions, LAMBDA e : Test(LocationOf(e)))

OwnedTest(location) == TownhallNear("Own", location)
EnemyTest(location) == TownhallNear("Enemy", location)

\* C19: whatever the townhalls of the snapshot, owned_expansions returns the
\* expansions with an own townhall within 15 of their location,
\* enemy_expansions those with an enemy townhall within 15, free_expansions
\* those with no townhall of either side within 15; so every expansion is in
\* one of the three lists at least, and no free expansion is owned or the
\* enemy's.
C19_ExpansionListsPartitionByTownhalls ==
    /\ Returned("owned_expansions") => queried.result = Selected(OwnedTest)
    /\ Returned("enemy_expansions") => queried.result = Selected(EnemyTest)
    /\ Returned("free_expansions") => queried.result = Selected(IsFree)
    /\ pc = "loop" =>
          LET owned == LocationsOf(OwnedExpansions(Bot))
              enemy == LocationsOf(EnemyExpansions(Bot))
              free == LocationsOf(FreeExpansions(Bot))
          IN  /\ LocationsOf(expansions) = owned \cup enemy \cup free
              /\ free \cap (owned \cup enemy) = {}

\* the three expansions of the two-base map, one owned, one the enemy's and one
\* free, and free_expansions has returned the free one
C19_Witness ==
    /\ Returned("free_expansions")
    /\ Len(expansions) = 3
    /\ Len(queried.result) = 1
    /\ Len(OwnedExpansions(Bot)) = 1
    /\ Len(EnemyExpansions(Bot)) = 1

\* the candidates of the last query the engine judged infeasible
NoPath(i) == queried.response[i].distance = None
NotPlaceable(i) == queried.response[i].result.proto # "Success"

\* C20: an infeasible candidate of a placement or pathing query neither ends
\* the session nor makes the call fail.  query_pathing and query_placement
\* return Ok with one entry per candidate in the order of the request, an
\* infeasible candidate as no distance / as a result other than Success;
\* can_place returns false for an infeasible position; and when a call does
\* unwind, the engine had judged no candidate.
C20_InfeasibleCandidateIsAResultEntry ==
    /\ Returned("query_pathing") =>
          /\ outcome = Running
          /\ queried.result[1] = "Ok"
          /\ Len(queried.requests) = 1
          /\ Len(queried.result[2]) = Len(queried.requests[1])
          /\ \A i \in DOMAIN queried.requests[1] :
                IF NoPath(i) THEN queried.result[2][i] = None
                ELSE queried.result[2][i] = queried.response[i].distance
    /\ Returned("query_placement") =>
          /\ outcome = Running
          /\ queried.result[1] = "Ok"
          /\ Len(queried.requests) = 1
          /\ Len(queried.result[2]) = Len(queried.requests[1].placements)
          /\ \A i \in DOMAIN queried.requests[1].placements :
                NotPlaceable(i) <=> queried.result[2][i] # "Success"
    /\ Returned("can_place") =>
          /\ outcome = Running
          /\ Len(queried.requests) = 1
          /\ Len(queried.requests[1].placements) = 1
          /\ queried.result = ~NotPlaceable(1)
    /\ (queried # <<>> /\ outcome[1] = "panic") => queried.response = <<>>

\* a pathing query of two candidates returned, the first without a path; the
\* session goes on
C20_Witness ==
    /\ Returned("query_pathing")
    /\ Len(queried.response) = 2
    /\ NoPath(1)
    /\ ~NoPath(2)
    /\ queried.result = << "Ok", << None, queried.response[2].distance >> >>

(***************************************************************************)
(* Properties of the callbacks of a session.                                *)
(***************************************************************************)
NameOf(callback) == callback[1]
ArgumentOf(callback) == callback[2]

\* the log holds, in this order, the bot's successful join response and the
\* responses to the game-info and game-data requests
JoinedAndStaticData ==
    \E i, j, k \in DOMAIN log :
       /\ i < j /\ j < k
       /\ log[i].t = "recv" /\ log[i].c = "bot" /\ log[i].k = "join_game"
       /\ log[i].ok /\ log[i].v.error = ""
       /\ log[j].t = "req" /\ log[j].k = "game_info" /\ log[j].ok
       /\ log[k].t = "req" /\ log[k].k = "data" /\ log[k].ok

\* on_start is the first callback and no other; on_step has the tick indices
\* 0, 1, 2, ... in turn; on_end is the last callback
CallbacksInOrder ==
    \A i \in DOMAIN callbacks :
       /\ NameOf(callbacks[i]) = "on_start" <=> i = 1
       /\ NameOf(callbacks[i]) = "on_step" => ArgumentOf(callbacks[i]) = i - 2
       /\ NameOf(callbacks[i]) = "on_end" => i = Len(callbacks)

\* C21: in every session on_start is invoked once, after the successful join
\* and the static-data requests and before any on_step; on_step is invoked
\* with the tick indices 0, 1, 2, ... each once and in increasing order; on_end
\* is invoked at most once and nothing after it; a session that returns Ok has
\* had its on_start and its on_end.
C21_CallbacksOnceAndInOrder ==
    /\ [](CallbacksInOrder
          /\ (outcome = << "ok", "" >> =>
                 /\ Len(callbacks) >= 2
                 /\ NameOf(callbacks[Len(callbacks)]) = "on_end"))
    /\ [][callbacks = <<>> /\ callbacks' # <<>> =>
             /\ joined["bot"]
             /\ pc = "first_obs"
             /\ JoinedAndStaticData]_vars

\* a session that returned Ok after on_start, on_step(0) and on_end
C21_Witness ==
    /\ outcome = << "ok", "" >>
    /\ Len(callbacks) = 3
    /\ callbacks[1] = << "on_start", 0 >>
    /\ callbacks[2] = << "on_step", 0 >>
    /\ NameOf(callbacks[3]) = "on_end"

(***************************************************************************)
(* Properties of the join requests.                                         *)
(***************************************************************************)
JoinSent(e) == e.t = "send" /\ e.k = "join_game"

\* the request carries a shared port, a server pair and client pairs
HasPortsBlock(request) ==
    /\ request.shared_port # None
    /\ request.server_ports # None
    /\ request.client_ports # <<>>

\* the participants that join in this mode
Participants == IF mode = "human" THEN { "host", "bot" } ELSE { "bot" }

\* C22 as stated: in vs-computer and vs-human every join request carries a
\* ports block, the same one in all join requests of the session.
C22_EveryJoinHasPorts ==
    mode \in { "computer", "human" } =>
       \A i \in DOMAIN log :
          JoinSent(log[i]) =>
             /\ HasPortsBlock(log[i].v)
             /\ \A j \in DOMAIN log : JoinSent(log[j]) => log[j].v = log[i].v

\* C22 amended: in vs-human every join request carries the same ports block,
\* fixed before the first join request: the shared port PORT + 2, one server
\* pair (PORT + 3, PORT + 4) and one client pair per participant, (PORT + 5,
\* PORT + 6) and (PORT + 7, PORT + 8); in ladder mode the block is the shared
\* port, one server pair and one client pair counted up from the caller's
\* player port; in vs-computer the join request carries no ports block.
C22_PortsOnlyInMultiplayerJoins ==
    \A i \in DOMAIN log :
       JoinSent(log[i]) =>
          /\ mode = "computer" =>
                /\ log[i].v.shared_port = None
                /\ log[i].v.server_ports = None
                /\ log[i].v.client_ports = <<>>
          /\ mode = "human" =>
                /\ log[i].v.shared_port = Some(PORT + 2)
                /\ log[i].v.server_ports = Some(<< PORT + 3, PORT + 4 >>)
                /\ Len(log[i].v.client_ports) = Cardinality(Participants)
                /\ log[i].v.client_ports[1] = << PORT + 5, PORT + 6 >>
                /\ log[i].v.client_ports[2] = << PORT + 7, PORT + 8 >>
                /\ \A j \in DOMAIN log : JoinSent(log[j]) => log[j].v = log[i].v
          /\ mode = "ladder" =>
                \E p \in PlayerPorts :
                   /\ log[i].v.shared_port = Some(p + 1)
                   /\ log[i].v.server_ports = Some(<< p + 2, p + 3 >>)
                   /\ log[i].v.client_ports = << << p + 4, p + 5 >> >>

\* vs-human: both participants' join requests were written
C22_Witness ==
    /\ mode = "human"
    /\ \E i, j \in DOMAIN log :
          /\ JoinSent(log[i]) /\ log[i].c = "host" /\ log[i].ok
          /\ JoinSent(log[j]) /\ log[j].c = "bot" /\ log[j].ok

(***************************************************************************)
(* Properties of the ramp geometry.                                         *)
(***************************************************************************)
PointsOf(r) == { r.points[i] : i \in DOMAIN r.points }

\* the tiles of the ramp at the maximum height present
HighestTiles(r) ==
    { p \in PointsOf(r) : \A q \in PointsOf(r) : r.height[q] <= r.height[p] }

WallFunctions ==
    { "barracks_in_middle", "depot_in_middle", "corner_depots",
      "barracks_correct_placement", "protoss_wall_pylon",
      "protoss_wall_buildings", "protoss_wall_warpin" }

RampCalled(fns) == queried # <<>> /\ queried.fn \in fns

\* the wall pair the call worked with
WallOf(call) == { call.response[1][1], call.response[1][2] }

\* C24: on a ramp whose upper tier has a number of tiles other than 2 or 5
\* every wall function returns none; with exactly 2 upper tiles the wall pair
\* is those two tiles and with exactly 5 it is two of the five upper tiles, and
\* the mid-wall circles are then drawn about the centres of the wall pair.
C24_WallOnlyOfTwoOrFiveUpperTiles ==
    /\ RampCalled(WallFunctions) /\ Cardinality(HighestTiles(ramp)) \notin { 2, 5 } =>
          queried.result = None
    /\ RampCalled(WallFunctions \cup { "upper2_for_ramp_wall" })
          /\ Cardinality(HighestTiles(ramp)) \in { 2, 5 } =>
          /\ queried.response # None
          /\ Cardinality(WallOf(queried)) = 2
          /\ WallOf(queried) \subseteq HighestTiles(ramp)
          /\ Cardinality(HighestTiles(ramp)) = 2 => WallOf(queried) = HighestTiles(ramp)
    /\ RampCalled({ "barracks_in_middle", "depot_in_middle" })
          /\ Cardinality(HighestTiles(ramp)) \in { 2, 5 } =>
          /\ queried.result # None
          /\ { queried.result[1].circles[1], queried.result[1].circles[2] }
                = { TileCenter(p) : p \in WallOf(queried) }

\* corner_depots was called on a ramp of five upper tiles and on one of three
C24_Witness ==
    /\ RampCalled({ "corner_depots" })
    /\ Cardinality(HighestTiles(ramp)) = 5
    /\ queried.result # None

(***************************************************************************)
(* Properties of the replay file.                                           *)
(***************************************************************************)
\* the file name of the path ends with the extension .SC2Replay
HasReplayExtension(path) ==
    /\ path # <<>>
    /\ Len(path[Len(path)]) >= 2
    /\ path[Len(path)][Len(path[Len(path)])] = "SC2Replay"

\* the path with .SC2Replay appended to its file name as the extension
WithReplayExtension(path) ==
    [path EXCEPT ![Len(path)] = Append(@, "SC2Replay")]

FileWritten(e) == e.t = "file" /\ e.k = "save_replay" /\ e.ok

\* C23: when the game has ended normally and a replay path was supplied, the
\* replay bytes of the response are written verbatim to the caller's path if
\* it ends with the extension .SC2Replay, and otherwise to the caller's path
\* with .SC2Replay appended as the extension of its file name.
C23_ReplayWrittenToPathWithExtension ==
    \A i \in DOMAIN log :
       FileWritten(log[i]) =>
          /\ i > 1 /\ log[i - 1].k = "save_replay" /\ log[i - 1].t = "req"
          /\ log[i].v.data = log[i - 1].v
          /\ log[i].v.created =
                IF HasReplayExtension(log[i].v.given) THEN log[i].v.given
                ELSE WithReplayExtension(log[i].v.given)

(***************************************************************************)
(* Properties of the order of a tick's steps.                               *)
(***************************************************************************)
\* the place of an event in a play_step tick
StepRank(e) ==
    IF e.t = "fn" THEN 0
    ELSE IF e.t = "req" /\ e.k = "observation" THEN 1
    ELSE IF e.t = "req" /\ e.k = "query_abilities" THEN 2
    ELSE IF e.t = "call" /\ e.k = "on_step" THEN 3
    ELSE IF e.t = "ret" /\ e.k = "on_step" THEN 4
    ELSE IF e.t = "req" /\ e.k = "action" THEN 5
    ELSE IF e.t = "req" /\ e.k = "debug" THEN 6
    ELSE IF e.t = "req" /\ e.k = "step" THEN 7
    ELSE 8

\* the categorized views are those of this snapshot
ViewsReflect(snapshot) ==
    /\ Members(units.my.all) = { u \in Members(snapshot) : IsMine(u) }
    /\ Members(units.enemy.all) = { u \in Members(snapshot) : u.alliance = "Enemy" }

\* the abilities query of this tick has been sent, the views not yet rebuilt
AbilitiesQuerySent == pc = "prepare"

\* C25 as stated: the categorized views already reflect the new snapshot when
\* the abilities query is sent.
C25_ViewsRebuiltBeforeAbilitiesQuery ==
    AbilitiesQuerySent => ViewsReflect(observed)

\* C25 amended: in every non-terminal on_step tick the steps occur in this
\* order: observation request; the single abilities query, which lists the own
\* units of the snapshot just observed; replacement of the state and rebuild
\* of the categorized views from that snapshot; the on_step callback; the
\* action flush; the debug flush; the step-advance.  The views still hold the
\* previous tick's snapshot when the abilities query is sent and hold the new
\* one when on_step is called.
C25_AbilitiesQueryBeforeViewsRebuilt ==
    InStepTick =>
       /\ \A i, j \in DOMAIN log : i < j => StepRank(log[i]) < StepRank(log[j])
       /\ \A i \in DOMAIN log : StepRank(log[i]) < 8
       /\ \A i \in DOMAIN log :
             StepRank(log[i]) = 2 =>
                /\ i = 3
                /\ Len(log[i].v)
                      = Cardinality({ n \in DOMAIN ObservedSnapshot(log[2]) :
                                         IsMine(ObservedSnapshot(log[2])[n]) })
                /\ Members(log[i].v)
                      = { u.tag : u \in { v \in Members(ObservedSnapshot(log[2])) :
                                             IsMine(v) } }
       /\ AbilitiesQuerySent =>
             /\ observed = ObservedSnapshot(log[2])
             /\ ViewsReflect(state)
       /\ (\E i \in DOMAIN log : StepRank(log[i]) = 3) =>
             /\ state = ObservedSnapshot(log[2])
             /\ ViewsReflect(ObservedSnapshot(log[2]))

\* the abilities query of the second tick has been sent for a snapshot whose
\* own units are not those of the views
C25_Witness ==
    /\ InStepTick
    /\ AbilitiesQuerySent
    /\ iteration = 1
    /\ log[3].v # TagsIn(units.my.all)
    /\ ViewsReflect(state) /\ ~ViewsReflect(observed)

(***************************************************************************)
(* Properties of the first tick.                                            *)
(***************************************************************************)
\* the log is that of a tick whose observation reported status ended
EndedObservation ==
    /\ Len(log) >= 2
    /\ log[1].t = "fn"
    /\ log[2].t = "req" /\ log[2].k = "observation" /\ log[2].ok
    /\ ObservedStatus(log[2]) = Status(TRUE)

\* C26: the end-of-game check applies to every observation requested, the
\* first one included: after a response that reports the game ended, neither
\* on_start nor on_step is called in that tick, and on_end is the callback
\* called.
C26_EveryObservationIsCheckedForEnd ==
    EndedObservation =>
       /\ \A i \in DOMAIN log :
             log[i].t = "call" => log[i].k = "on_end"
       /\ pc \notin { "on_start", "first_flush", "first_step", "loop" }

\* C28: debug commands queued during on_start or on_step are sent in one
\* debug request within that same tick, before the tick's step-advance, so
\* that the debug buffer is empty when a tick is over and when the next
\* callback begins; no debug request is sent with an empty buffer.
C28_DebugFlushedInEveryTick ==
    /\ pc \in { "first_step", "step", "loop" } => debugCmds = <<>>
    /\ pc \in { "on_start", "on_step" } /\ opsLeft = MaxOps => debugCmds = <<>>
    /\ \A i \in DOMAIN log :
          log[i].t = "req" /\ log[i].k = "debug" =>
             /\ log[i].v # <<>>
             /\ \A j \in DOMAIN log : log[j].t = "req" /\ log[j].k = "debug" => j = i
             /\ \A j \in DOMAIN log : log[j].t = "req" /\ log[j].k = "step" => i < j

\* orders and current_units are the counts of the current snapshot
CountersRecomputed ==
    /\ \A type_id \in CountedTypes :
          CountOf(current_units, type_id) = Cardinality(ReadyOfType(type_id))
    /\ \A ability \in AbilitiesInSnapshot \cup DOMAIN orders :
          CountOf(orders, ability)
             = Cardinality({ u \in OwnInSnapshot :
                                /\ ~(IsReady(u) /\ ~IsPlaceholder(u))
                                /\ u.type_id \in DOMAIN ProductionAbility
                                /\ ProductionAbility[u.type_id] = ability })
               + (IF IsConstructing(ability) THEN 0
                  ELSE Cardinality(ActiveOrders(ability)))

\* C27: when on_start is called and when every on_step is called, the derived
\* counters orders and current_units have been recomputed from the snapshot of
\* that same tick, after classification.
C27_CountersRecomputedBeforeEveryCallback ==
    StartSynchronized \/ StepSynchronized => CountersRecomputed

(***************************************************************************)
(* Properties of chat messages and debug commands.                          *)
(***************************************************************************)
\* C29: chat messages are never merged or deduplicated: the k chat calls of
\* a tick are the first k entries of that tick's action request, one entry
\* per call and in call order, also when their texts are equal; the entries
\* after them are the aggregated unit commands; and no debug command is an
\* entry of the action request, the debug request carrying debug commands
\* only.
C29_ChatsAreSeparateEntriesInCallOrder ==
    /\ \A i \in ActionRequests :
          /\ Len(log[i].v) >= Cardinality(ChatsIssued)
          /\ \A n \in DOMAIN log[i].v :
                IF n <= Cardinality(ChatsIssued)
                THEN /\ log[i].v[n].kind = "Chat"
                     /\ << "chat", n, log[i].v[n].text >> \in issued
                ELSE log[i].v[n].kind = "UnitCommand"
    /\ \A i \in DOMAIN log :
          log[i].t = "req" /\ log[i].k = "debug" =>
             \A n \in DOMAIN log[i].v : log[i].v[n] = "draw"

\* two chat calls with the same text were flushed in one action request
C29_Witness ==
    \E i \in ActionRequests :
       /\ Len(log[i].v) = 2
       /\ log[i].v[1] = ChatAction("gg")
       /\ log[i].v[2] = ChatAction("gg")
       /\ Cardinality(ChatsIssued) = 2

(***************************************************************************)
(* Properties of the classification.                                        *)
(***************************************************************************)
NeutralCollections ==
    { "watchtowers", "mineral_fields", "vespene_geysers", "inhibitor_zones",
      "destructables" }

KindCollections == { "structures", "placeholders", "units" }

\* the collections of a side that hold the unit
HeldBy(side, u) == { f \in DOMAIN units[side] : u \in Members(units[side][f]) }

\* the neutral collections that hold the unit
HeldByNeutral(u) ==
    { f \in NeutralCollections \cup { "resources" } : u \in Members(units[f]) }

SideOf(u) == IF u.alliance = "Own" THEN "my" ELSE "enemy"
OtherSideOf(u) == IF u.alliance = "Own" THEN "enemy" ELSE "my"

\* C30: classification partitions the snapshot: every neutral unit is in
\* exactly one of watchtowers, mineral_fields, vespene_geysers,
\* inhibitor_zones, destructables, and resources is mineral_fields plus
\* vespene_geysers; every own / enemy unit is in its side's all and in exactly
\* one of that side's structures, placeholders, units; townhalls and
\* gas_buildings are within structures and hold no placeholder, workers and
\* larvas are within units; no own unit is in an enemy collection nor an
\* enemy unit in an own one, and no unit is twice in a collection.
C30_ClassificationPartitionsTheSnapshot ==
    /\ \A u \in Members(state) :
          /\ u.alliance = "Neutral" =>
                /\ Cardinality(HeldByNeutral(u) \cap NeutralCollections) = 1
                /\ "resources" \in HeldByNeutral(u)
                      <=> HeldByNeutral(u) \cap { "mineral_fields", "vespene_geysers" } # {}
                /\ HeldBy("my", u) = {} /\ HeldBy("enemy", u) = {}
          /\ u.alliance \in { "Own", "Enemy" } =>
                /\ "all" \in HeldBy(SideOf(u), u)
                /\ Cardinality(HeldBy(SideOf(u), u) \cap KindCollections) = 1
                /\ HeldBy(OtherSideOf(u), u) = {}
                /\ HeldByNeutral(u) = {}
    /\ Len(units.resources) = Len(units.mineral_fields) + Len(units.vespene_geysers)
    /\ \A side \in { "my", "enemy" } :
          /\ Members(units[side].townhalls) \cup Members(units[side].gas_buildings)
                \subseteq Members(units[side].structures)
          /\ \A u \in Members(units[side].townhalls) \cup Members(units[side].gas_buildings) :
                ~IsPlaceholder(u)
          /\ Members(units[side].workers) \cup Members(units[side].larvas)
                \subseteq Members(units[side].units)
    /\ \A group \in Collections :
          /\ Members(group) \subseteq Members(state)
          /\ Cardinality(Members(group)) = Len(group)

\* a synchronized snapshot with an own placeholder structure and an own worker
C30_Witness ==
    /\ iteration >= 1
    /\ \E u \in Members(state) :
          /\ IsMine(u) /\ IsPlaceholder(u)
          /\ HeldBy("my", u) = { "all", "placeholders" }

(***************************************************************************)
(* The expansion search as a choice among the offsets of a disk.            *)
(***************************************************************************)
\* every integer offset with x*x + y*y <= 64: none is more than OFFSET + 1
\* from the centre in either coordinate
Disk ==
    { o \in ((0 - OFFSET - 1)..(OFFSET + 1)) \X ((0 - OFFSET - 1)..(OFFSET + 1)) :
         o[1] * o[1] + o[2] * o[2] <= OffsetLimit }

\* the offsets of a set that land on a buildable tile farther than the
\* clearance from every resource of the group
Qualifying(offsets, resources) ==
    { o \in offsets :
         LET pos == Offset(FlooredCenter(resources), o[1], o[2])
         IN  IsEmpty(game_info.placement_grid, pos) /\ KeepsClear(pos, resources) }

\* the sum of the squared distances of an offset's tile to the resources
SumAt(o, resources) ==
    DistanceSum(Offset(FlooredCenter(resources), o[1], o[2]), resources)

\* the group is matched to neither start location
Unmatched(resources) ==
    /\ ~CenterWithin(StartTolerance, FlooredCenter(resources), start_center)
    /\ ~CenterWithin(StartTolerance, FlooredCenter(resources), enemy_start_center)

\* prepare_start has aborted
StartAborted == pc = "exited" /\ outcome = <<"panic", "prepare_start">>

\* the choice among a set of offsets: after a start that succeeded, every
\* unmatched group's location is the qualifying offset of least distance sum,
\* the earliest such; a start that found own townhalls aborts exactly when
\* an unmatched group has no qualifying offset, and leaves no expansions
SearchPicksBestOf(offsets) ==
    LET groups == ResourceGroups(Bot)
    IN  /\ StartSynchronized =>
              \A g \in DOMAIN groups :
                 Unmatched(groups[g]) =>
                    \E o \in Qualifying(offsets, groups[g]) :
                       /\ LocationOf(expansions[g])
                             = Offset(FlooredCenter(groups[g]), o[1], o[2])
                       /\ \A p \in Qualifying(offsets, groups[g]) \ {o} :
                             \/ SumAt(o, groups[g]) < SumAt(p, groups[g])
                             \/ /\ SumAt(o, groups[g]) = SumAt(p, groups[g])
                                /\ ComesBefore(o, p)
        /\ StartAborted /\ units.my.townhalls # <<>> =>
              /\ expansions = <<>>
              /\ \E g \in DOMAIN groups :
                    /\ Unmatched(groups[g])
                    /\ Qualifying(offsets, groups[g]) = {}

\* C31 (as amended): for a resource group matched to no start location the
\* chosen tile is, among the offsets of the list (the disk cut to the square
\* of OFFSET each way) that are buildable and keep the clearances, the one of
\* least distance sum, the earliest on ties; the start aborts, with no
\* expansions list, if no offset of the list qualifies.
C31_SearchPicksBestOfOffsetList == SearchPicksBestOf(OFFSETS)

\* a start that chose, for an unmatched group, the earlier of two qualifying
\* offsets of the same least distance sum
C31_Witness ==
    /\ StartSynchronized
    /\ \E g \in DOMAIN ResourceGroups(Bot) :
          LET resources == ResourceGroups(Bot)[g]
          IN  /\ Unmatched(resources)
              /\ \E o, p \in Qualifying(OFFSETS, resources) :
                    /\ ComesBefore(o, p)
                    /\ SumAt(o, resources) = SumAt(p, resources)
                    /\ LocationOf(expansions[g])
                          = Offset(FlooredCenter(resources), o[1], o[2])

\* C31: for a resource group matched to no start location the chosen tile is,
\* among the offsets with dx*dx + dy*dy <= 64 that are buildable and keep the
\* clearances, the one of least distance sum, the earliest on ties; the start
\* aborts, with no expansions list, if no such offset qualifies.
C31_SearchPicksBestOfDisk == SearchPicksBestOf(Disk)

(***************************************************************************)
(* Properties of the tiers of a ramp and their centroids.                   *)
(***************************************************************************)
\* the tiles of the ramp at the minimum height present
LowestTiles(r) ==
    { p \in PointsOf(r) : \A q \in PointsOf(r) : r.height[p] <= r.height[q] }

\* the tiles of a tier
Tier(fn) == IF fn \in { "upper", "top_center" } THEN HighestTiles(ramp)
            ELSE LowestTiles(ramp)

\* the sum of a coordinate over a set of tiles
RECURSIVE SumOver(_, _)
SumOver(tiles, k) ==
    IF tiles = {} THEN 0
    ELSE LET p == CHOOSE q \in tiles : TRUE
         IN  p[k] + SumOver(tiles \ {p}, k)

\* a point is the arithmetic mean of a set of tiles
IsMeanOf(c, tiles) ==
    /\ c[1] * Cardinality(tiles) = SumOver(tiles, 1)
    /\ c[2] * Cardinality(tiles) = SumOver(tiles, 2)

\* C32: for every ramp with at least one tile the upper tier is exactly the
\* tiles at the maximum height present, the lower tier exactly those at the
\* minimum, and top_center and bottom_center are the arithmetic mean of the
\* coordinates of the tiles of their tier.
C32_TiersAndCentroidsAreExact ==
    ramp.points # <<>> =>
       /\ RampCalled({ "upper", "lower" }) =>
             /\ { queried.result[i] : i \in DOMAIN queried.result } = Tier(queried.fn)
             /\ Len(queried.result) = Cardinality(Tier(queried.fn))
       /\ RampCalled({ "top_center", "bottom_center" }) =>
             /\ queried.result # None
             /\ IsMeanOf(queried.result[1], Tier(queried.fn))

\* the tiers alone: upper() and lower() return exactly the tiles at the
\* maximum and at the minimum height present, each once
TiersAreExact ==
    RampCalled({ "upper", "lower" }) =>
       /\ { queried.result[i] : i \in DOMAIN queried.result } = Tier(queried.fn)
       /\ Len(queried.result) = Cardinality(Tier(queried.fn))

\* the centroids as computed: each coordinate is the mean rounded down
CentroidsAreFlooredMeans ==
    RampCalled({ "top_center", "bottom_center" }) /\ ramp.points # <<>> =>
       /\ queried.result # None
       /\ \A k \in 1..2 :
             LET n == Cardinality(Tier(queried.fn))
                 c == queried.result[1][k]
             IN  c * n <= SumOver(Tier(queried.fn), k)
                    /\ SumOver(Tier(queried.fn), k) < (c + 1) * n

(***************************************************************************)
(* Properties of the join phase against a human.                            *)
(***************************************************************************)
JoinReceived(e) == e.t = "recv" /\ e.k = "join_game"

\* the session is between the first join request and the static data
InJoinPhase == pc \in { "join2_host", "join2_bot", "wait_host", "wait_bot" }

\* C33: in vs-human mode the join request is sent on the host connection and
\* then on the bot connection before either join response is awaited, the
\* responses are awaited host first, then bot, and the stored player id is
\* the one of the bot connection's join response.
C33_HumanJoinsSentThenAwaitedInOrder ==
    mode = "human" =>
       /\ \A i \in DOMAIN log :
             JoinSent(log[i]) /\ log[i].c = "bot" =>
                \E h \in 1..(i - 1) :
                   JoinSent(log[h]) /\ log[h].c = "host" /\ log[h].ok
       /\ \A i \in DOMAIN log :
             JoinReceived(log[i]) =>
                \E h, b \in 1..(i - 1) :
                   /\ h < b
                   /\ JoinSent(log[h]) /\ log[h].c = "host" /\ log[h].ok
                   /\ JoinSent(log[b]) /\ log[b].c = "bot" /\ log[b].ok
       /\ \A i \in DOMAIN log :
             JoinReceived(log[i]) /\ log[i].c = "bot" =>
                \E h \in 1..(i - 1) :
                   /\ JoinReceived(log[h]) /\ log[h].c = "host" /\ log[h].ok
                   /\ log[h].v.error = ""
       /\ \A i \in DOMAIN log :
             /\ JoinReceived(log[i]) /\ log[i].c = "bot"
             /\ log[i].ok /\ log[i].v.error = ""
             => playerId = log[i].v.player_id
       /\ InJoinPhase => playerId = 0

\* both participants have joined, the host as player 1 and the bot as player 2
C33_Witness ==
    /\ mode = "human" /\ pc = "game_info" /\ playerId = 2
    /\ \E h, b \in DOMAIN log :
          /\ h < b
          /\ JoinReceived(log[h]) /\ log[h].c = "host" /\ log[h].v.player_id = 1
          /\ JoinReceived(log[b]) /\ log[b].c = "bot" /\ log[b].v.player_id = 2

(***************************************************************************)
(* Properties of the shared context and of the supply.                      *)
(***************************************************************************)
\* on_step is running
InOnStep == pc = "on_step"

\* C34: during the on_step callback of tick N the shared context attached to
\* the units of the snapshot and of the views holds the upgrades and the creep
\* of snapshot N, not those of an earlier snapshot.
C34_UnitsCarryContextOfTheirSnapshot ==
    InOnStep =>
       /\ raw.data.upgrades = raw.upgrades
       /\ raw.data.creep = raw.creep

\* the context the bot holds during on_step of tick N is built from snapshot
\* N; it is the one the units of the next snapshot will be given
HeldContextIsOfTheSnapshot ==
    InOnStep => data_for_unit = DataFrom(raw)

\* the sum of two u32 is a third, without wrapping
SumIsU32(a, b, c) ==
    /\ (a.lo + b.lo) % Half = c.lo
    /\ a.hi + b.hi + ((a.lo + b.lo) \div Half) = c.hi

\* C35: for every observation the tick does not abort in the subtraction
\* supply_cap - supply_used of prepare_step and stores no wrapped-around
\* value: after the synchronization supply_used + supply_left = supply_cap.
C35_SupplyLeftNeverUnderflows ==
    /\ outcome # <<"panic", "prepare_step">>
    /\ InOnStep => SumIsU32(supply_used, supply_left, supply_cap)

\* where the observation's supply used does not exceed its cap, the supply
\* left is the difference and the tick does not abort
SupplyLeftIsDifferenceWithinCap ==
    /\ outcome = <<"panic", "prepare_step">> => LessU32(supply_cap, supply_used)
    /\ InOnStep /\ ~LessU32(supply_cap, supply_used) =>
          SumIsU32(supply_used, supply_left, supply_cap)

(***************************************************************************)
(* Properties of find_placement.                                            *)
(***************************************************************************)
FindPlacementReturned == queried # <<>> /\ queried.fn = "find_placement"

\* the engine reported Success for an ability at a position in one of the
\* queries of the call
ReportedSuccess(ability, p) ==
    \E i \in DOMAIN queried.requests :
       \E k \in DOMAIN queried.requests[i].placements :
          /\ queried.requests[i].placements[k].ability_id = ability
          /\ queried.requests[i].placements[k].target_pos = p
          /\ FromProto(queried.response[i][k].result) = "Success"

\* the positions the call asked the engine about for the building
AskedPositions ==
    UNION { { queried.requests[i].placements[k].target_pos :
                 k \in { n \in DOMAIN queried.requests[i].placements :
                            queried.requests[i].placements[n].ability_id
                               = ProductionAbility[queried.args.building] } } :
               i \in DOMAIN queried.requests }

\* the building, and with the addon option the addon beside it, can stand
FeasibleAt(p) ==
    /\ ReportedSuccess(ProductionAbility[queried.args.building], p)
    /\ queried.args.options.addon =>
          ReportedSuccess("TerranBuildSupplyDepot", AddonPosition(p))

Abs(n) == IF n < 0 THEN 0 - n ELSE n

\* the distance of the square ring around near on which a position lies
RingOf(p) ==
    LET dx == Abs(p[1] - queried.args.near[1]) \div 2
        dy == Abs(p[2] - queried.args.near[2]) \div 2
    IN  IF dx > dy THEN dx ELSE dy

\* the candidates of the ring at a distance: its positions at multiples of step
RingCandidates(d) ==
    { Offset(queried.args.near, x, y) :
         << x, y >> \in { o \in ((0 - d)..d) \X ((0 - d)..d) :
                            /\ Abs(o[1]) = d \/ Abs(o[2]) = d
                            /\ o[1] % queried.args.options.step = 0
                            /\ o[2] % queried.args.options.step = 0 } }

\* the ring distances step, 2*step, ... below max_distance
RingDistanceSet ==
    { d \in 1..(queried.args.options.max_distance - 1) :
         d % queried.args.options.step = 0 }

\* the feasible positions of the rings, and the smallest ring that has one
FeasibleOnRings == { p \in AskedPositions : RingOf(p) > 0 /\ FeasibleAt(p) }

OnSmallestFeasibleRing(p) ==
    /\ p \in FeasibleOnRings
    /\ \A q \in FeasibleOnRings : RingOf(p) <= RingOf(q)

\* no feasible position is closer to near on the same ring
ClosestOnItsRing(p) ==
    \A q \in FeasibleOnRings :
       RingOf(q) = RingOf(p) =>
          DistanceSquared(queried.args.near, p) <= DistanceSquared(queried.args.near, q)

\* what holds of every call whatever the options: a returned position was
\* reported feasible; near is returned when it is feasible, after one query;
\* the rings are asked in full, nearest first, up to the first with a feasible
\* position and never at max_distance or beyond; a position of the first
\* feasible ring is returned, none when there is none; the number of queries
\* is bounded
FindPlacementSearchesRings ==
    FindPlacementReturned =>
       IF queried.args.building \notin DOMAIN ProductionAbility
       THEN queried.result = None /\ queried.requests = <<>>
       ELSE /\ queried.result # None => FeasibleAt(queried.result[1])
            /\ FeasibleAt(queried.args.near) <=> queried.result = Some(queried.args.near)
            /\ FeasibleAt(queried.args.near) => Len(queried.requests) = 1
            /\ \A p \in AskedPositions : RingOf(p) < queried.args.options.max_distance
            /\ \A p \in AskedPositions : RingOf(p) = 0 \/ RingOf(p) \in RingDistanceSet
            /\ ~FeasibleAt(queried.args.near) =>
                  \A d \in RingDistanceSet :
                     (\A q \in FeasibleOnRings : d <= RingOf(q)) =>
                        RingCandidates(d) \subseteq AskedPositions
            /\ \A p \in AskedPositions, q \in FeasibleOnRings : RingOf(p) <= RingOf(q)
            /\ ~FeasibleAt(queried.args.near) /\ FeasibleOnRings # {} =>
                  /\ queried.result # None
                  /\ OnSmallestFeasibleRing(queried.result[1])
            /\ ~FeasibleAt(queried.args.near) /\ FeasibleOnRings = {} =>
                  queried.result = None
            /\ Len(queried.requests)
                  <= 1 + 2 * ((queried.args.options.max_distance - 1)
                                 \div queried.args.options.step)

\* C36: find_placement returns a position only if the engine reported Success
\* for it (and for the addon beside it, with the addon option); it returns
\* near when that is feasible, otherwise the feasible position closest to near
\* of the smallest ring at distance step, 2*step, ... below max_distance that
\* has one, none when no ring has one; it sends a bounded number of queries.
C36_FindPlacementReturnsClosestOfFirstRing ==
    /\ FindPlacementSearchesRings
    /\ FindPlacementReturned /\ queried.result # None =>
          queried.result[1] = queried.args.near
             \/ ClosestOnItsRing(queried.result[1])

\* C36 (as amended): as above, but the returned position of the first
\* feasible ring is the closest to near only without the random option; with
\* it, it is any feasible position of that ring.
C36_FindPlacementReturnsClosestUnlessRandom ==
    /\ FindPlacementSearchesRings
    /\ FindPlacementReturned /\ queried.result # None
          /\ ~queried.args.options.random =>
          queried.result[1] = queried.args.near
             \/ ClosestOnItsRing(queried.result[1])

\* a call without the random option returned, of two feasible positions of
\* the same ring, the one closer to near
C36_Witness ==
    /\ FindPlacementReturned /\ queried.result # None
    /\ ~queried.args.options.random
    /\ queried.result[1] # queried.args.near
    /\ \E q \in FeasibleOnRings :
          /\ RingOf(q) = RingOf(queried.result[1])
          /\ DistanceSquared(queried.args.near, queried.result[1])
                < DistanceSquared(queried.args.near, q)

(***************************************************************************)
(* Properties of the connect phase.                                         *)
(***************************************************************************)
InConnectPhase == pc \in { "connect_host", "connect_bot" }

\* the controller whose connection is being attempted
Connecting == IF pc = "connect_host" THEN "host" ELSE "bot"

\* no callback has been invoked
NoCallbackYet ==
    /\ callbacks = <<>>
    /\ \A i \in DOMAIN log : log[i].t \notin { "call", "ret" }

\* a step taken in the connect phase: the run function does not return and
\* no callback is invoked; the phase is left only by an attempt that
\* succeeded, towards the next connection or the create / join phase
ConnectPhaseStep ==
    InConnectPhase =>
       /\ outcome' = outcome
       /\ callbacks' = callbacks
       /\ pc' # pc =>
             /\ ~api[Connecting] /\ api'[Connecting]
             /\ pc' = IF pc = "connect_host" THEN "connect_bot"
                      ELSE IF mode = "ladder" THEN "join2_bot" ELSE "create"
       /\ pc' = pc => UNCHANGED vars

=============================================================================
